---- MODULE Spec2Model ----
(***************************************************************************)
(* A model of the DEFLATE codec of gzip-rust: the decoder (inflate.rs:     *)
(* huft_build, inflate_codes, inflate_stored, inflate_fixed,               *)
(* inflate_dynamic, inflate_block, inflate) and the encoder's block layer  *)
(* (trees.rs: ct_init, ct_tally, build_tree, gen_bitlen, gen_codes,        *)
(* scan_tree, send_tree, compress_block, flush_block).                     *)
(*                                                                         *)
(* Arrays of the source are functions over 0..n-1; decode tables are       *)
(* sequences (entry j of the source is element j+1).                       *)
(***************************************************************************)
EXTENDS Integers, Sequences, FiniteSets, TLC

(***************************************************************************)
(* Bounds of the model (not program constants).                            *)
(***************************************************************************)
\* longest code length drawn for a huft_build input vector
MaxLenBits == 4
\* number of symbols of a drawn huft_build input vector
MaxSyms == 4
\* the decoder's window holds 2^WBITS bytes
WBITS == 3
\* the lookup bits m of a drawn huft_build call range over 1 .. MaxLookup
MaxLookup == 3
\* a drawn input stream of inflate is made of 1 .. MaxChunks chunks
MaxChunks == 2
\* the encoder's literal and distance buffers hold 2^LBITS symbols
LBITS == 4
\* a drawn frequency vector of build_tree has up to MaxLeaves counts of
\* 1 .. MaxFreq, or is one of the vectors that make a deep tree
MaxLeaves == 3
MaxFreq == 2
\* the bits the trees built earlier in a block have counted when build_tree
\* is called on a drawn distance or bit-length vector
PriorLen == 4096

(***************************************************************************)
(* Program constants.                                                      *)
(***************************************************************************)
BMAX == 16
N_MAX == 288
MAX_BITS == 15
MAX_BL_BITS == 7
LENGTH_CODES == 29
LITERALS == 256
L_CODES == LITERALS + 1 + LENGTH_CODES
D_CODES == 30
BL_CODES == 19
HEAP_SIZE == 2 * L_CODES + 1
END_BLOCK == 256
STORED_BLOCK == 0
STATIC_TREES == 1
DYN_TREES == 2
SMALLEST == 1
BINARY == 0
ASCII == 1
REP_3_6 == 16
REPZ_3_10 == 17
REPZ_11_138 == 18

\* WSIZE, the window size of the decoder (scaled: 0x8000 in the program)
WSIZE == 2 ^ WBITS

\* a zero-based array from a sequence
Arr(s) == [i \in 0..(Len(s) - 1) |-> s[i + 1]]

Min(a, b) == IF a <= b THEN a ELSE b
Max(a, b) == IF a >= b THEN a ELSE b

border == Arr(<<16, 17, 18, 0, 8, 7, 9, 6, 10, 5, 11, 4, 12, 3, 13, 2, 14, 1, 15>>)

cplens == Arr(<<3, 4, 5, 6, 7, 8, 9, 10, 11, 13, 15, 17, 19, 23, 27, 31,
                35, 43, 51, 59, 67, 83, 99, 115, 131, 163, 195, 227, 258, 0, 0>>)

cplext == Arr(<<0, 0, 0, 0, 0, 0, 0, 0, 1, 1, 1, 1, 2, 2, 2, 2,
                3, 3, 3, 3, 4, 4, 4, 4, 5, 5, 5, 5, 0, 99, 99>>)

cpdist == Arr(<<1, 2, 3, 4, 5, 7, 9, 13, 17, 25, 33, 49, 65, 97, 129, 193,
                257, 385, 513, 769, 1025, 1537, 2049, 3073, 4097, 6145,
                8193, 12289, 16385, 24577>>)

cpdext == Arr(<<0, 0, 0, 0, 1, 1, 2, 2, 3, 3, 4, 4, 5, 5, 6, 6,
                7, 7, 8, 8, 9, 9, 10, 10, 11, 11, 12, 12, 13, 13>>)

\* `let x = v; ...`: F of the value v, which is worked out once
With(v, F(_)) == F(v)

\* `for i in lo..hi { st = Op(st, i) }`, evaluated by halving the range
RECURSIVE FoldRange(_, _, _, _)
FoldRange(Op(_, _), st, lo, hi) ==
    IF lo >= hi THEN st
    ELSE IF hi - lo = 1 THEN Op(st, lo)
    ELSE With(FoldRange(Op, st, lo, (lo + hi) \div 2), LAMBDA left :
           IF left = left THEN FoldRange(Op, left, (lo + hi) \div 2, hi) ELSE st)

\* mask_bits[n] = 2^n - 1, so (b & mask_bits[n]) is b % 2^n
MaskBits(b, n) == b % (2 ^ n)

(***************************************************************************)
(* Huft: a decode table entry.  v is HuftValue::N(n) (isT = FALSE) or      *)
(* HuftValue::T(t) (isT = TRUE); tables are held by value.                 *)
(***************************************************************************)
HuftN(e, b, n) == [e |-> e, b |-> b, isT |-> FALSE, n |-> n, t |-> <<>>]
HuftT(e, b, t) == [e |-> e, b |-> b, isT |-> TRUE, n |-> 0, t |-> t]
HuftDefault == HuftN(0, 0, 0)

\* vec![Huft::default(); size]
NewTable(size) == [j \in 1..size |-> HuftDefault]

(***************************************************************************)
(* The walk `tmp = &mut u[0]; for depth in ... tmp = tmp[hpos[depth]].v`   *)
(* of huft_build: the table reached from tbl along path (a sequence of     *)
(* positions); an entry that is no table leaves tmp where it is.           *)
(***************************************************************************)
RECURSIVE TableAt(_, _)
TableAt(tbl, path) ==
    IF path = <<>> THEN tbl
    ELSE IF path[1] + 1 > Len(tbl) THEN <<>>
    ELSE IF tbl[path[1] + 1].isT THEN TableAt(tbl[path[1] + 1].t, Tail(path))
    ELSE TableAt(tbl, Tail(path))

\* tbl with entry idx of the table reached along path set to r
RECURSIVE WriteAt(_, _, _, _)
WriteAt(tbl, path, idx, r) ==
    IF path = <<>> THEN [tbl EXCEPT ![idx + 1] = r]
    ELSE IF tbl[path[1] + 1].isT
         THEN [tbl EXCEPT ![path[1] + 1].t = WriteAt(@, Tail(path), idx, r)]
         ELSE WriteAt(tbl, Tail(path), idx, r)

\* hpos[from..to] as a path
HposPath(hpos, from, to) == [d \in 1..(to - from + 1) |-> hpos[from + d - 1]]

(***************************************************************************)
(* huft_build (inflate.rs 301-675).  chk is the build's overflow           *)
(* checking: with it an unsigned subtraction below zero aborts (panic),    *)
(* without it the subtraction wraps modulo 2^32.                           *)
(***************************************************************************)
\* the Kraft loop `for j in k..g`: the allowance left before length g, or -1
\* where checked_sub fails (the function returns 2)
RECURSIVE hb_kraft(_, _, _, _)
hb_kraft(y, j, g, c) ==
    IF j >= g THEN y
    ELSE IF y < c[j] THEN -1
    ELSE hb_kraft(2 * (y - c[j]), j + 1, g, c)

\* the starting offsets: x[i] = c[1] + ... + c[i-1]
RECURSIVE hb_offset(_, _)
hb_offset(c, i) == IF i <= 1 THEN 0 ELSE hb_offset(c, i - 1) + c[i - 1]

\* one step of the bucket sort of the symbols by length into v; xv = [x, v]
hb_populate(xv, b, i) ==
    IF b[i] # 0
    THEN [x |-> [xv.x EXCEPT ![b[i]] = @ + 1],
          v |-> [xv.v EXCEPT ![xv.x[b[i]]] = i]]
    ELSE xv

\* the width search `loop { j += 1; if j >= z break; f <<= 1; ... }`
RECURSIVE hb_width(_, _, _, _, _)
hb_width(j, f, xp, z, c) ==
    IF j + 1 >= z THEN j + 1
    ELSE IF 2 * f <= c[xp + 1] THEN j + 1
    ELSE hb_width(j + 1, 2 * f - c[xp + 1], xp + 1, z, c)

\* the bits j of the table opened at bit offset w for a code of length k, a
\* codes of that length left: `z = min(g - w, l); j = k - w; f = 1 << j;
\* if f > a + 1 { f -= a + 1; ... }`, z the upper bound
hb_bits(st, k, a, w, z) ==
    IF 2 ^ (k - w) > a + 1 /\ k - w < z
    THEN hb_width(k - w, 2 ^ (k - w) - (a + 1), k, z, st.c)
    ELSE k - w

\* the new table q of 2^j entries is made the root (h = 0) or linked from
\* entry i >> (w - l) of the table before it; st has the new h, w and z
hb_link(st, j, q) ==
    IF st.h > 0
    THEN With([st.hpos EXCEPT ![st.h - 1] = st.i \div (2 ^ (st.w - st.l))],
              LAMBDA hpos :
         With(HposPath(hpos, 0, st.h - 2), LAMBDA path :
           IF hpos[st.h - 1] + 1 > Len(TableAt(st.u0, path))
           THEN [st EXCEPT !.panic = TRUE]
           ELSE [st EXCEPT !.x[st.h] = st.i,
                           !.r = HuftT(16 + j, st.l, q),
                           !.which_q = 2,
                           !.which_len = st.h - 1,
                           !.hpos = hpos,
                           !.u0 = WriteAt(@, path, hpos[st.h - 1],
                                          HuftT(16 + j, st.l, q))]))
    ELSE [st EXCEPT !.which_q = 1, !.which_len = st.h, !.u0 = q]

\* `while k > w + l`: open the sub-tables that code length k needs
RECURSIVE hb_open(_, _, _)
hb_open(st, k, a) ==
    IF st.panic \/ ~(k > st.w + st.l) THEN st
    ELSE With(hb_bits(st, k, a, st.w + st.l,
                      IF st.g - (st.w + st.l) > st.l THEN st.l
                      ELSE st.g - (st.w + st.l)),
              LAMBDA j :
           hb_open(hb_link([st EXCEPT !.h = @ + 1, !.w = @ + st.l, !.z = 2 ^ j,
                                      !.hufts = @ + 2 ^ j + 1],
                           j, NewTable(2 ^ j + 1)),
                   k, a))

\* `while j < z { table[j] = r; j += f }` on the table reached along path
RECURSIVE WriteStride(_, _, _, _, _, _)
WriteStride(tbl, path, j, f, z, r) ==
    IF path = <<>>
    THEN [idx \in 1..Len(tbl) |->
            IF idx - 1 >= j /\ idx - 1 < z /\ (idx - 1 - j) % f = 0
            THEN r ELSE tbl[idx]]
    ELSE IF tbl[path[1] + 1].isT
         THEN [tbl EXCEPT ![path[1] + 1].t = WriteStride(@, Tail(path), j, f, z, r)]
         ELSE WriteStride(tbl, Tail(path), j, f, z, r)

\* a plain increment in place of the bit-reversed one
hb_incr_mut(i, j) == i + 1

\* the code increment `j = 1 << (k-1); while i & j != 0 { i ^= j; j >>= 1 } i ^= j`
RECURSIVE hb_incr(_, _)
hb_incr(i, j) ==
    IF j = 0 THEN i
    ELSE IF (i \div j) % 2 = 1 THEN hb_incr(i - j, j \div 2)
    ELSE i + j

hb_xindex(h) == IF h >= 0 THEN h ELSE BMAX + 1 + h

\* `while (i & ((1 << w) - 1)) != x[x_index]`: back up over finished tables
RECURSIVE hb_backup(_)
hb_backup(st) ==
    IF st.panic THEN st
    ELSE IF st.w < 0 THEN [st EXCEPT !.panic = TRUE]
    ELSE IF MaskBits(st.i, st.w) # st.x[hb_xindex(st.h)]
         THEN hb_backup([st EXCEPT !.h = st.h - 1, !.w = st.w - st.l])
         ELSE st

\* the entry for the next code: a simple code, a base/extra pair, or, out
\* of values, an invalid code (r.v keeps what it held)
hb_entry(st, k) ==
    IF st.p < st.n
    THEN IF st.v[st.p] < st.s
         THEN HuftN(IF st.v[st.p] < 256 THEN 16 ELSE 15, k - st.w, st.v[st.p])
         ELSE HuftN(st.e[st.v[st.p] - st.s], k - st.w, st.d[st.v[st.p] - st.s])
    ELSE [st.r EXCEPT !.e = 99, !.b = k - st.w]

\* the entry r is stored at every place of the current table it belongs to,
\* and the code i goes on to the next one
hb_store(st, k, r) ==
    hb_backup([st EXCEPT !.r = r,
                         !.p = IF st.p < st.n THEN st.p + 1 ELSE st.p,
                         !.u0 = WriteStride(@, IF st.which_q = 2
                                               THEN HposPath(st.hpos, 0, st.which_len)
                                               ELSE <<>>,
                                            st.i \div (2 ^ st.w), 2 ^ (k - st.w),
                                            st.z, r),
                         !.i = hb_incr(st.i, 2 ^ (k - 1))])

\* one pass of the body of `while a > 0` (a already decremented)
hb_code(st0, k, a) ==
    With(hb_open(st0, k, a), LAMBDA st :
      IF st.panic THEN st ELSE hb_store(st, k, hb_entry(st, k)))

\* `for k in k..=g { a = c[k]; while a > 0 { a -= 1; ... } }`: code number t
\* (counted from 0 over all lengths) has length k where
\* c[1] + .. + c[k-1] <= t < c[1] + .. + c[k], and a codes of it are left
hb_run(st, t) ==
    With(CHOOSE len \in 1..BMAX :
            hb_offset(st.c, len) <= t /\ t < hb_offset(st.c, len + 1),
         LAMBDA k : hb_code(st, k, hb_offset(st.c, k + 1) - t - 1))

\* the tables of huft_build for the counts c0 of the lengths, the shortest
\* length k and the longest g in use, l lookup bits, and the allowance y0
\* left before length g.  `y -= c[g]; c[g] += y`: where the subtraction
\* wraps, y is y0 - c[g] + 2^32 (not zero) and the sum wraps back to y0.
hb_tables(b, n, s, d, e, c0, g, l, y0) ==
    With([c0 EXCEPT ![g] = y0], LAMBDA c :
    With(FoldRange(LAMBDA s0, i : hb_populate(s0, b, i),
                   [x |-> [i \in 0..BMAX |-> hb_offset(c, i)],
                    v |-> [i \in 0..(N_MAX - 1) |-> 0]], 0, n),
         LAMBDA xv :
    With(FoldRange(hb_run,
                   [c |-> c, x |-> [xv.x EXCEPT ![0] = 0], v |-> xv.v,
                    n |-> xv.x[g], s |-> s, d |-> d, e |-> e,
                    u0 |-> <<>>, hpos |-> [i \in 0..BMAX |-> 0],
                    h |-> -1, w |-> -l, l |-> l, z |-> 0, i |-> 0,
                    p |-> 0, r |-> HuftDefault, which_q |-> 0,
                    which_len |-> 0, g |-> g, hufts |-> 0,
                    panic |-> FALSE],
                   0, hb_offset(c, g + 1)),
         LAMBDA st :
      [ret |-> IF y0 - c0[g] # 0 /\ g # 1 THEN 1 ELSE 0,
       t |-> HuftT(0, 0, st.u0), m |-> l, hufts |-> st.hufts,
       panic |-> st.panic])))

\* the result of huft_build: ret its return value, t the table *t, m the
\* lookup bits *m, hufts the table entries allocated, panic whether the call
\* aborted
huft_build(b, n, s, d, e, m, chk) ==
    With([len \in 0..BMAX |-> Cardinality({i \in 0..(n - 1) : b[i] = len})],
         LAMBDA c0 :
      IF c0[0] = n
      THEN [ret |-> 0, t |-> HuftT(99, 1, <<>>), m |-> 1, hufts |-> 0,
            panic |-> FALSE]
      ELSE
        With(CHOOSE len \in 1..BMAX :
                c0[len] # 0 /\ \A o \in 1..(len - 1) : c0[o] = 0,
             LAMBDA k :
        With(CHOOSE len \in 1..BMAX :
                c0[len] # 0 /\ \A o \in (len + 1)..BMAX : c0[o] = 0,
             LAMBDA g :
        With(IF m < k THEN k ELSE IF m > g THEN g ELSE m, LAMBDA l :
        With(hb_kraft(2 ^ k, k, g, c0), LAMBDA y0 :
          IF y0 < 0
          THEN [ret |-> 2, t |-> HuftDefault, m |-> l, hufts |-> 0,
                panic |-> FALSE]
          ELSE IF y0 < c0[g] /\ chk
          THEN [ret |-> 0, t |-> HuftDefault, m |-> l, hufts |-> 0,
                panic |-> TRUE]
          ELSE hb_tables(b, n, s, d, e, c0, g, l, y0))))))

(***************************************************************************)
(* The decoder.  A decoder state m holds the globals of Inflate and        *)
(* GzipState that inflate uses (inbuf, inptr, bb, bk, outcnt, window, the  *)
(* output sink, hufts), the locals b, k, w that each function copies from  *)
(* and restores to the globals, and the result r of the call in progress.  *)
(* Some fields record the run for the properties: taken counts the bytes   *)
(* need_bits has fetched, ran names the block decoder that was entered, nl *)
(* and nd are the counts the last inflate_dynamic read, ll is its array ll *)
(* as its length loop left it and log the bit-length codes that loop read, *)
(* each with the value of its extra bits.                                  *)
(***************************************************************************)
\* GzipState::fill_inbuf(false) once the input is used up: it reports the end
\* of the input (None) and leaves the input cursor where it is
fill_inbuf(m) == [m EXCEPT !.eof = TRUE]

\* Get_Byte, and the `b |= byte << k; k += 8` of need_bits.  At the end of
\* the input Get_Byte turns the None of fill_inbuf into a zero byte.
next_byte(m) ==
    IF m.inptr < Len(m.inbuf)
    THEN [m EXCEPT !.b = @ + m.inbuf[m.inptr + 1] * (2 ^ m.k),
                   !.k = @ + 8, !.inptr = @ + 1, !.taken = @ + 1]
    ELSE [fill_inbuf([m EXCEPT !.outcnt = m.w]) EXCEPT !.k = @ + 8, !.taken = @ + 1]

RECURSIVE need_bits(_, _)
need_bits(m, n) == IF m.k >= n THEN m ELSE need_bits(next_byte(m), n)

dump_bits(m, n) == [m EXCEPT !.b = @ \div (2 ^ n), !.k = @ - n]

\* flush_window: hand window[0..outcnt) to the sink
flush_window(m) ==
    IF m.outcnt = 0 THEN m
    ELSE [m EXCEPT !.sink = @ \o [i \in 1..m.outcnt |-> m.window[i - 1]],
                   !.flushes = @ + 1,
                   !.outcnt = 0]

flush_output(m, w) == flush_window([m EXCEPT !.outcnt = w])

\* the window full, the write position is reset and nothing is handed over
flush_full_mut(m) == IF m.w = WSIZE THEN [m EXCEPT !.w = 0] ELSE m

\* `if w == WSIZE { flush_output(w); w = 0 }`
flush_full(m) == IF m.w = WSIZE THEN [flush_output(m, m.w) EXCEPT !.w = 0] ELSE m

\* `window[w] = byte; w += 1; if w == WSIZE { flush_output(w); w = 0 }`
put_window(m, byte) == flush_full([m EXCEPT !.window[m.w] = byte, !.w = @ + 1])

(***************************************************************************)
(* The table walk of inflate_codes (697-756 and 790-853): from the root    *)
(* table t with bl lookup bits to an entry with e <= 16.  The result is m  *)
(* with the entry in m.t; m.r is 1 on an invalid code (e = 99), 2 on a     *)
(* table that cannot be indexed, and m.panic is set where the source       *)
(* indexes out of bounds or meets an entry of the wrong variant.           *)
(***************************************************************************)
RECURSIVE ic_chain(_, _)
ic_chain(m, t) ==
    IF t.e <= 16 THEN [m EXCEPT !.t = t]
    ELSE IF t.e = 99 THEN [m EXCEPT !.r = 1, !.t = t]
    ELSE With(need_bits(dump_bits(m, t.b), t.e - 16), LAMBDA m1 :
           IF ~t.isT \/ MaskBits(m1.b, t.e - 16) + 1 > Len(t.t)
           THEN [m1 EXCEPT !.panic = TRUE]
           ELSE ic_chain(m1, t.t[MaskBits(m1.b, t.e - 16) + 1]))

\* the bits of the entry found are dropped
ic_found(m) == IF m.r # 0 \/ m.panic THEN m ELSE dump_bits(m, m.t.b)

ic_lookup(m0, root, bl) ==
    With(need_bits(m0, bl), LAMBDA m :
      IF ~root.isT \/ root.t = <<>> \/ MaskBits(m.b, bl) >= Len(root.t)
      THEN [m EXCEPT !.r = 2]
      ELSE ic_found(ic_chain(m, root.t[MaskBits(m.b, bl) + 1])))

\* the copy always done as copy_within, from the window as it was
ic_window_mut(m, d, e) ==
    [p \in 0..(WSIZE - 1) |->
        IF p >= m.w /\ p < m.w + e
        THEN m.window[d + (p - m.w)] ELSE m.window[p]]

\* the window after e bytes from d were copied to w
ic_window(m, d, e) ==
    IF e <= (IF d < m.w THEN m.w - d ELSE d - m.w)
    THEN \* copy_within(d..d+e, w)
         [p \in 0..(WSIZE - 1) |->
             IF p >= m.w /\ p < m.w + e
             THEN m.window[d + (p - m.w)] ELSE m.window[p]]
    ELSE \* byte by byte, each byte read after the earlier writes
         FoldRange(LAMBDA wn, q : [wn EXCEPT ![m.w + q] = wn[d + q]],
                   m.window, 0, e)

\* one pass of `while n > 0` of the copy (866-909); c = [m, n, d]
ic_copy(c, i) ==
    IF c.n = 0 THEN c
    ELSE With(c.d % WSIZE, LAMBDA d :
         With(Min(WSIZE - Max(d, c.m.w), c.n), LAMBDA e :
           [m |-> flush_full([c.m EXCEPT !.window = ic_window(c.m, d, e),
                                          !.w = @ + e]),
            n |-> c.n - e, d |-> d + e]))

\* the match of inflate_codes (779-909): m holds the length entry, the
\* extra bits of the length and the distance code are read, the bytes copied
ic_match(m, td, bd) ==
    With(need_bits(m, m.t.e), LAMBDA m1 :
    With(ic_lookup(dump_bits(m1, m.t.e), td, bd), LAMBDA m2 :
      IF m.t.isT THEN [m EXCEPT !.panic = TRUE]
      ELSE IF m2.r # 0 \/ m2.panic THEN m2
      ELSE IF m2.t.isT THEN [m2 EXCEPT !.panic = TRUE]
      ELSE With(need_bits(m2, m2.t.e), LAMBDA m3 :
             FoldRange(ic_copy,
                       [m |-> dump_bits(m3, m2.t.e),
                        n |-> m.t.n + MaskBits(m1.b, m.t.e),
                        d |-> m3.w - m2.t.n - MaskBits(m3.b, m2.t.e)],
                       0, m.t.n + MaskBits(m1.b, m.t.e)).m)))

\* one pass of the symbol loop of inflate_codes; m.st is "run" while the
\* loop goes on, "eob" after the end-of-block code
ic_symbol(m0, tl, td, bl, bd) ==
    With(ic_lookup(m0, tl, bl), LAMBDA m :
      IF m.r # 0 \/ m.panic THEN m
      ELSE IF m.t.e = 16
           THEN IF m.t.isT THEN [m EXCEPT !.panic = TRUE]
                ELSE put_window(m, m.t.n % 256)
      ELSE IF m.t.e = 15 THEN [m EXCEPT !.st = "eob"]
      ELSE ic_match(m, td, bd))

\* the symbols a block can hold before the model gives the loop up as not
\* ending (m.st = "hang"): every symbol but one read from zero bytes past the
\* end takes at least one bit of the input
ic_fuel(m) == 8 * (Len(m.inbuf) + 4)

\* inflate_codes (680-919)
inflate_codes(m0, tl, td, bl, bd) ==
    With(FoldRange(LAMBDA x, i : IF x.st = "run" /\ x.r = 0 /\ ~x.panic
                                 THEN ic_symbol(x, tl, td, bl, bd) ELSE x,
                   [m0 EXCEPT !.b = m0.bb, !.k = m0.bk, !.w = m0.outcnt,
                              !.st = "run"],
                   0, ic_fuel(m0)),
         LAMBDA m :
      IF m.r # 0 \/ m.panic THEN m
      ELSE IF m.st = "run" THEN [m EXCEPT !.st = "hang"]
      ELSE [m EXCEPT !.outcnt = m.w, !.bb = m.b, !.bk = m.k])

\* the pass without the store to the window
is_byte_mut(m, i) == dump_bits(need_bits(m, 8), 8)

\* one pass of `while n > 0` of inflate_stored (950-960)
is_byte(m, i) ==
    With(need_bits(m, 8), LAMBDA m1 : dump_bits(put_window(m1, m1.b % 256), 8))

\* inflate_stored (922-968)
inflate_stored(m0) ==
    With(need_bits(dump_bits([m0 EXCEPT !.b = m0.bb, !.k = m0.bk, !.w = m0.outcnt,
                                        !.ran = "stored"],
                             m0.bk % 8), 16),
         LAMBDA m2 :
    With(need_bits(dump_bits(m2, 16), 16), LAMBDA m3 :
      IF m2.b % 65536 # 65535 - (m3.b % 65536) THEN [m3 EXCEPT !.r = 1]
      ELSE With(FoldRange(is_byte, dump_bits(m3, 16), 0, m2.b % 65536),
                LAMBDA m4 : [m4 EXCEPT !.outcnt = m4.w, !.bb = m4.b, !.bk = m4.k])))

\* the length lists of inflate_fixed (978-989 and 998-1001)
fixed_l == [i \in 0..287 |->
               IF i < 144 THEN 8 ELSE IF i < 256 THEN 9 ELSE IF i < 280 THEN 7 ELSE 8]
fixed_ld == [i \in 0..29 |-> 5]

\* the two tables of inflate_fixed; no subtraction of huft_build overflows
\* on these lists, so the tables are those of either build
fixed_tl == huft_build(fixed_l, 288, 257, cplens, cplext, 7, TRUE)
fixed_td == huft_build(fixed_ld, 30, 0, cpdist, cpdext, 5, TRUE)

\* the result r of the block's inflate_codes call as the block decoder hands
\* it on: `if inflate_codes(..)? != 0 { return Ok(1) }`
ic_result(m) == IF m.r # 0 THEN [m EXCEPT !.r = 1] ELSE m

\* inflate_fixed (971-1049) with the tables hl and hd
if_tables(m0, hl, hd) ==
    IF hl.panic THEN [m0 EXCEPT !.hufts = @ + hl.hufts, !.panic = TRUE]
    ELSE IF hl.ret # 0 THEN [m0 EXCEPT !.hufts = @ + hl.hufts, !.r = hl.ret]
    ELSE IF hd.panic
         THEN [m0 EXCEPT !.hufts = @ + hl.hufts + hd.hufts, !.panic = TRUE]
    ELSE IF hd.ret > 1
         THEN [m0 EXCEPT !.hufts = @ + hl.hufts + hd.hufts, !.r = hd.ret]
    ELSE ic_result(
           inflate_codes([m0 EXCEPT !.hufts = @ + hl.hufts + hd.hufts],
                         hl.t, hd.t, hl.m, hd.m))

inflate_fixed(m0) == if_tables([m0 EXCEPT !.ran = "fixed"], fixed_tl, fixed_td)

\* the `while let T(subtable) = t.v` walk of inflate_dynamic (1135-1140),
\* every level indexed by the same index; the result is [r, t]
RECURSIVE id_entry(_, _)
id_entry(t, index) ==
    IF ~t.isT THEN [r |-> 0, t |-> t]
    ELSE IF t.t = <<>> \/ index >= Len(t.t) THEN [r |-> 2, t |-> t]
    ELSE id_entry(t.t[index + 1], index)

\* `for _ in 0..repeat { literal_lengths[i] = l; i += 1 }`
id_fill(ll, i, repeat, l) ==
    [q \in DOMAIN ll |-> IF q >= i /\ q < i + repeat THEN l ELSE ll[q]]

\* id_repeat with l left alone after a run of zeros
id_repeat_mut(c, n, m, j, nx, repeat) ==
    IF c.i + repeat > n
    THEN [c EXCEPT !.m = [dump_bits(m, nx) EXCEPT !.r = 1],
                   !.log = Append(@, <<j, MaskBits(m.b, nx)>>)]
    ELSE [c EXCEPT !.m = dump_bits(m, nx),
                   !.ll = id_fill(c.ll, c.i, repeat, IF j = 16 THEN c.l ELSE 0),
                   !.i = @ + repeat,
                   !.l = c.l,
                   !.log = Append(@, <<j, MaskBits(m.b, nx)>>)]

\* a repeat code j (16, 17 or 18) of inflate_dynamic (1156-1203): m has the
\* nx extra bits of the code in its bit buffer
id_repeat(c, n, m, j, nx, repeat) ==
    IF c.i + repeat > n
    THEN [c EXCEPT !.m = [dump_bits(m, nx) EXCEPT !.r = 1],
                   !.log = Append(@, <<j, MaskBits(m.b, nx)>>)]
    ELSE [c EXCEPT !.m = dump_bits(m, nx),
                   !.ll = id_fill(c.ll, c.i, repeat, IF j = 16 THEN c.l ELSE 0),
                   !.i = @ + repeat,
                   !.l = IF j = 16 THEN c.l ELSE 0,
                   !.log = Append(@, <<j, MaskBits(m.b, nx)>>)]

\* the bit-length code j read with entry en, the bits of the code dropped
id_code(c, n, m, en, j, nx) ==
    IF en.t.e = 99 THEN [c EXCEPT !.m = [m EXCEPT !.r = 2]]
    ELSE IF j < 16 THEN [c EXCEPT !.m = m, !.ll[c.i] = j, !.i = @ + 1, !.l = j,
                                  !.log = Append(@, <<j, 0>>)]
    ELSE IF j > 18 THEN [c EXCEPT !.m = m]
    ELSE With(need_bits(m, nx), LAMBDA m3 :
           id_repeat(c, n, m3, j, nx,
                     (IF j = 18 THEN 11 ELSE 3) + MaskBits(m3.b, nx)))

\* one pass of `while i < n` of inflate_dynamic (1129-1204);
\* c = [m, ll, i, l, log], tl and bl the bit-length table and its lookup
\* bits; log is the list of the codes read, each with the value of its extra
\* bits, kept for the properties
id_length(c, n, tl, bl) ==
    With(need_bits(c.m, bl), LAMBDA m1 :
    With(id_entry(tl, MaskBits(m1.b, bl)), LAMBDA en :
      IF en.r # 0 THEN [c EXCEPT !.m = [m1 EXCEPT !.r = 2]]
      ELSE id_code(c, n, dump_bits(m1, en.t.b), en, en.t.n,
                   IF en.t.n = 16 THEN 2 ELSE IF en.t.n = 17 THEN 3 ELSE 7)))

\* `for j in 0..nb` of inflate_dynamic (1087-1091); c = [m, bit_lengths]
id_bitlen(c, j) ==
    With(need_bits(c.m, 3), LAMBDA m1 :
      [m |-> dump_bits(m1, 3),
       bit_lengths |-> [c.bit_lengths EXCEPT ![border[j]] = m1.b % 8]])

\* the test without its distance half
id_bad_counts_mut(nl, nd) == nl > 286

\* `if nl > 286 || nd > 30` of inflate_dynamic (1081)
id_bad_counts(nl, nd) == nl > 286 \/ nd > 30

\* inflate_dynamic from the two tables on (1240-1285): m is the decoder
\* after the lengths were read, hl and hd the results of the two builds
id_tables(m, hl, hd) ==
    IF hl.panic THEN [m EXCEPT !.hufts = @ + hl.hufts, !.panic = TRUE]
    ELSE IF hl.ret # 0 THEN [m EXCEPT !.hufts = @ + hl.hufts, !.r = hl.ret]
    ELSE IF hd.panic
         THEN [m EXCEPT !.hufts = @ + hl.hufts + hd.hufts, !.panic = TRUE]
    ELSE IF hd.ret # 0
         THEN [m EXCEPT !.hufts = @ + hl.hufts + hd.hufts, !.r = hd.ret]
    ELSE ic_result(
           inflate_codes([m EXCEPT !.hufts = @ + hl.hufts + hd.hufts],
                         hl.t, hd.t, hl.m, hd.m))

\* inflate_dynamic from the bit-length table on (1108-1285): m has read the
\* bit lengths, hb is the result of the build of their table
id_lengths(m, hb, nl, nd, chk) ==
    IF hb.panic THEN [m EXCEPT !.hufts = @ + hb.hufts, !.panic = TRUE]
    ELSE IF hb.ret # 0 THEN [m EXCEPT !.hufts = @ + hb.hufts, !.r = hb.ret]
    ELSE
      With(FoldRange(LAMBDA c, q : IF c.i < nl + nd /\ c.m.r = 0
                                   THEN id_length(c, nl + nd, hb.t, hb.m) ELSE c,
                     [m |-> [m EXCEPT !.hufts = @ + hb.hufts],
                      ll |-> [q \in 0..(nl + nd - 1) |-> 0], i |-> 0, l |-> 0,
                      log |-> <<>>],
                     0, nl + nd),
           LAMBDA cl :
        IF cl.m.r # 0 THEN [cl.m EXCEPT !.ll = cl.ll, !.log = cl.log]
        ELSE IF cl.i < nl + nd THEN [cl.m EXCEPT !.st = "hang"]
        ELSE id_tables([cl.m EXCEPT !.bb = cl.m.b, !.bk = cl.m.k,
                                    !.ll = cl.ll, !.log = cl.log],
                       huft_build(cl.ll, nl, 257, cplens, cplext, 9, chk),
                       huft_build([q \in 0..(nd - 1) |-> cl.ll[nl + q]], nd, 0,
                                  cpdist, cpdext, 6, chk)))

\* inflate_dynamic from the counts on (1081-1285): m has read HLIT, HDIST
\* and HCLEN
id_counts(m, nl, nd, nb, chk) ==
    IF id_bad_counts(nl, nd) THEN [m EXCEPT !.r = 1]
    ELSE With(FoldRange(id_bitlen,
                        [m |-> m, bit_lengths |-> [q \in 0..18 |-> 0]], 0, nb),
              LAMBDA cb :
           id_lengths(cb.m, huft_build(cb.bit_lengths, 19, 19, <<>>, <<>>, 7, chk),
                      nl, nd, chk))

\* inflate_dynamic (1054-1286); lbits and dbits are 9 and 6 (Inflate::new)
inflate_dynamic(m0, chk) ==
    With(need_bits([m0 EXCEPT !.b = m0.bb, !.k = m0.bk, !.w = m0.outcnt,
                              !.ran = "dynamic", !.ll = <<>>, !.log = <<>>], 5),
         LAMBDA m1 :
    With(need_bits(dump_bits(m1, 5), 5), LAMBDA m2 :
    With(need_bits(dump_bits(m2, 5), 4), LAMBDA m3 :
      id_counts([dump_bits(m3, 4) EXCEPT !.nl = 257 + (m1.b % 32),
                                         !.nd = 1 + (m2.b % 32)],
                257 + (m1.b % 32), 1 + (m2.b % 32), 4 + (m3.b % 16), chk))))

\* the block decoder of type t is entered (1310-1324)
ib_dispatch(m, t, chk) ==
    IF t = 2 THEN inflate_dynamic(m, chk)
    ELSE IF t = 0 THEN inflate_stored(m)
    ELSE IF t = 1 THEN inflate_fixed(m)
    ELSE [m EXCEPT !.r = 2]

\* the block header read as BTYPE (2 bits) and then BFINAL (1 bit)
inflate_block_mut(m0, chk) ==
    With(need_bits([m0 EXCEPT !.b = m0.bb, !.k = m0.bk, !.w = m0.outcnt], 2),
         LAMBDA m1 :
    With(need_bits(dump_bits(m1, 2), 1), LAMBDA m2 :
      ib_dispatch([dump_bits(m2, 1) EXCEPT !.e = m2.b % 2, !.btype = m1.b % 4,
                                          !.bb = m2.b \div 2, !.bk = m2.k - 1],
                  m1.b % 4, chk)))

\* inflate_block (1293-1325); m.e is the last-block flag *e, m.btype the
\* block type read
inflate_block(m0, chk) ==
    With(need_bits([m0 EXCEPT !.b = m0.bb, !.k = m0.bk, !.w = m0.outcnt], 1),
         LAMBDA m1 :
    With(need_bits(dump_bits(m1, 1), 2), LAMBDA m2 :
      ib_dispatch([dump_bits(m2, 2) EXCEPT !.e = m1.b % 2, !.btype = m2.b % 4,
                                          !.bb = m2.b \div 4, !.bk = m2.k - 2],
                  m2.b % 4, chk)))

\* the state of Inflate and GzipState before inflate has read anything
NewDecoder(inbuf) ==
    [inbuf |-> inbuf, inptr |-> 0, bb |-> 0, bk |-> 0, outcnt |-> 0,
     window |-> [p \in 0..(WSIZE - 1) |-> 0], sink |-> <<>>, flushes |-> 0,
     hufts |-> 0, b |-> 0, k |-> 0, w |-> 0, r |-> 0, st |-> "run",
     panic |-> FALSE, eof |-> FALSE, t |-> HuftDefault, e |-> 42, btype |-> 0,
     taken |-> 0, ran |-> "none", ll |-> <<>>, log |-> <<>>, nl |-> 0, nd |-> 0]

(***************************************************************************)
(* The encoder (trees.rs).  An encoder state tr holds the fields of Trees  *)
(* and the parts of GzipState that the block layer writes: inbuf, which    *)
(* ct_tally and compress_block use as the literal buffer, the bit          *)
(* accumulator (bi_buf, bi_valid) and the bytes put out (outbuf).  An      *)
(* array of CtData is a record of four arrays: tree[n].len of the source   *)
(* is tree.len[n].  file_type, an Option of a reference, is [some, v].  A  *)
(* u64 is held as its signed residue: v < 0 stands for 2^64 + v.  tr.panic *)
(* is set where the source aborts.                                         *)
(***************************************************************************)
\* LIT_BUFSIZE and DIST_BUFSIZE (scaled: 0x8000 in the program)
LIT_BUFSIZE == 2 ^ LBITS
DIST_BUFSIZE == LIT_BUFSIZE

\* constants of the modules deflate.rs and lib.rs
MIN_MATCH == 3
MAX_MATCH == 258
MAX_DIST == 32506
STORED == 0
DEFLATED == 8

EXTRA_LBITS == Arr(<<0, 0, 0, 0, 0, 0, 0, 0, 1, 1, 1, 1, 2, 2, 2, 2,
                     3, 3, 3, 3, 4, 4, 4, 4, 5, 5, 5, 5, 0>>)

EXTRA_DBITS == Arr(<<0, 0, 0, 0, 1, 1, 2, 2, 3, 3, 4, 4, 5, 5, 6, 6,
                     7, 7, 8, 8, 9, 9, 10, 10, 11, 11, 12, 12, 13, 13>>)

EXTRA_BLBITS == Arr(<<0, 0, 0, 0, 0, 0, 0, 0, 0, 0, 0, 0, 0, 0, 0, 0, 2, 3, 7>>)

BL_ORDER == Arr(<<16, 17, 18, 0, 8, 7, 9, 6, 10, 5, 11, 4, 12, 3, 13, 2, 14, 1, 15>>)

Zeros(size) == [i \in 0..(size - 1) |-> 0]

\* vec![CtData::default(); size]
NewTree(size) ==
    [freq |-> Zeros(size), len |-> Zeros(size), code |-> Zeros(size),
     dad |-> Zeros(size)]

\* Trees::new, and a GzipState that has put nothing out
NewTrees ==
    [file_type |-> [some |-> FALSE, v |-> 0], file_method |-> 0,
     compressed_len |-> 0, input_len |-> 0,
     base_length |-> Zeros(LENGTH_CODES), base_dist |-> Zeros(D_CODES),
     length_code |-> Zeros(256), dist_code |-> Zeros(512),
     bl_count |-> Zeros(MAX_BITS + 1),
     static_ltree |-> NewTree(L_CODES + 2), static_dtree |-> NewTree(D_CODES),
     dyn_ltree |-> NewTree(HEAP_SIZE), dyn_dtree |-> NewTree(2 * D_CODES + 1),
     bl_tree |-> NewTree(2 * BL_CODES + 1),
     opt_len |-> 0, static_len |-> 0, last_lit |-> 0, last_dist |-> 0,
     last_flags |-> 0, flags |-> 0, flag_bit |-> 1,
     d_buf |-> Zeros(DIST_BUFSIZE), flag_buf |-> Zeros(LIT_BUFSIZE \div 8),
     l_desc |-> [extra_base |-> LITERALS + 1, elems |-> L_CODES,
                 max_length |-> MAX_BITS, max_code |-> 0],
     d_desc |-> [extra_base |-> 0, elems |-> D_CODES,
                 max_length |-> MAX_BITS, max_code |-> 0],
     bl_desc |-> [extra_base |-> 0, elems |-> BL_CODES,
                  max_length |-> MAX_BL_BITS, max_code |-> 0],
     heap |-> Zeros(HEAP_SIZE), depth |-> Zeros(HEAP_SIZE),
     heap_len |-> 0, heap_max |-> 0,
     inbuf |-> Zeros(LIT_BUFSIZE), bi_buf |-> 0, bi_valid |-> 0, outbuf |-> <<>>,
     panic |-> FALSE]

\* the field of Trees that holds the tree of a TreeType
get_tree_mut(tree_type) ==
    CASE tree_type = "Literal" -> "dyn_ltree"
      [] tree_type = "Distance" -> "dyn_dtree"
      [] OTHER -> "bl_tree"

get_static_tree_mut(tree_type) ==
    CASE tree_type = "Literal" -> "static_ltree"
      [] tree_type = "Distance" -> "static_dtree"
      [] OTHER -> "bl_tree"

\* the descriptor of a TreeType, and the extra bits it points to
get_desc(tree_type) ==
    CASE tree_type = "Literal" -> "l_desc"
      [] tree_type = "Distance" -> "d_desc"
      [] OTHER -> "bl_desc"

extra_bits(tree_type) ==
    CASE tree_type = "Literal" -> EXTRA_LBITS
      [] tree_type = "Distance" -> EXTRA_DBITS
      [] OTHER -> EXTRA_BLBITS

\* `a += b` on u64 passes 2^64
u64_overflows(a, b) == (a < 0 /\ b < 0) \/ ((a < 0 \/ b < 0) /\ a + b >= 0)

\* `v >> 3` on u64; Huge stands for the values from 2^60 on
Huge == 2 ^ 30
u64_shr3(v) == IF v >= 0 THEN v \div 8 ELSE Huge

(***************************************************************************)
(* The bit writer of GzipState, whose code is not part of the sources      *)
(* modelled here; it is modelled by its contract.  The accumulator is      *)
(* filled from its low end, so that the first bit sent is the low bit of   *)
(* the first byte put out, which is the order need_bits reads in; a code   *)
(* that gen_codes stored reversed then leaves most significant bit first.  *)
(***************************************************************************)
put_byte(tr, c) == [tr EXCEPT !.outbuf = Append(@, c % 256)]

put_short(tr, w) == put_byte(put_byte(tr, w % 256), (w \div 256) % 256)

send_bits(tr, value, length) ==
    With(tr.bi_buf + (value % (2 ^ length)) * (2 ^ tr.bi_valid), LAMBDA acc :
      IF tr.bi_valid + length >= 16
      THEN [put_short(tr, acc % 65536) EXCEPT !.bi_buf = acc \div 65536,
                                              !.bi_valid = tr.bi_valid + length - 16]
      ELSE [tr EXCEPT !.bi_buf = acc, !.bi_valid = @ + length])

bi_windup(tr) ==
    [(IF tr.bi_valid > 8 THEN put_short(tr, tr.bi_buf)
      ELSE IF tr.bi_valid > 0 THEN put_byte(tr, tr.bi_buf) ELSE tr)
     EXCEPT !.bi_buf = 0, !.bi_valid = 0]

(***************************************************************************)
(* ct_init, init_block, gen_codes.                                         *)
(***************************************************************************)
\* the pass without the reversal
bi_reverse_mut(code, len) == code % (2 ^ len)

bi_reverse(code, len) ==
    FoldRange(LAMBDA c, i : [res |-> (2 * c.res + (c.code % 2)) % 65536,
                             code |-> c.code \div 2],
              [res |-> 0, code |-> code], 0, len).res

\* the tree and the largest code gen_codes works on (349-358)
gc_tree(tree_type, kind) ==
    IF kind = "Static" THEN get_static_tree_mut(tree_type) ELSE get_tree_mut(tree_type)

gc_max_code(tr, tree_type, kind) ==
    IF tree_type # "BitLength" /\ kind = "Static"
    THEN (IF tree_type = "Literal" THEN L_CODES + 1 ELSE D_CODES)
    ELSE tr[get_desc(tree_type)].max_code

\* `for bits in 1..=MAX_BITS` (367-369); c = [code, next_code]
gc_next(c, bl_count, bits) ==
    With(((c.code + (bl_count[bits - 1] % 65536)) * 2) % 65536, LAMBDA code :
      [code |-> code, next_code |-> [c.next_code EXCEPT ![bits] = code]])

\* gc_assign that leaves next_code as it is
gc_assign_mut(c, len, n) ==
    IF len[n] = 0 THEN c
    ELSE [code |-> [c.code EXCEPT ![n] = bi_reverse(c.next_code[len[n]], len[n])],
          next_code |-> c.next_code]

\* `for n in 0..=max_code` (382-392); c = [code, next_code], code the code
\* fields of the tree
gc_assign(c, len, n) ==
    IF len[n] = 0 THEN c
    ELSE [code |-> [c.code EXCEPT ![n] = bi_reverse(c.next_code[len[n]], len[n])],
          next_code |-> [c.next_code EXCEPT ![len[n]] = (@ + 1) % 65536]]

gen_codes(tr, tree_type, kind) ==
    With(gc_tree(tree_type, kind), LAMBDA tree :
      [tr EXCEPT ![tree].code =
          FoldRange(LAMBDA c, n : gc_assign(c, tr[tree].len, n),
                    [code |-> tr[tree].code,
                     next_code |-> FoldRange(LAMBDA c, bits : gc_next(c, tr.bl_count, bits),
                                             [code |-> 0, next_code |-> Zeros(MAX_BITS + 1)],
                                             1, MAX_BITS + 1).next_code],
                    0, gc_max_code(tr, tree_type, kind) + 1).code])

init_block(tr) ==
    [tr EXCEPT !.dyn_ltree.freq = [n \in DOMAIN @ |->
                                     IF n = END_BLOCK THEN 1
                                     ELSE IF n < L_CODES THEN 0 ELSE @[n]],
               !.dyn_dtree.freq = [n \in DOMAIN @ |-> IF n < D_CODES THEN 0 ELSE @[n]],
               !.bl_tree.freq = [n \in DOMAIN @ |-> IF n < BL_CODES THEN 0 ELSE @[n]],
               !.opt_len = 0, !.static_len = 0, !.last_lit = 0, !.last_dist = 0,
               !.last_flags = 0, !.flags = 0, !.flag_bit = 1]

\* one pass of a `while code < ..` of ct_init (233-242, 251-260, 264-273):
\* the next count codes of the table from position at on go to code;
\* c = [base, table, v], v the running length or distance
ci_fill(c, code, shift, at, count) ==
    [base |-> [c.base EXCEPT ![code] = c.v * (2 ^ shift)],
     table |-> [i \in DOMAIN c.table |->
                  IF i >= at + c.v /\ i < at + c.v + count THEN code ELSE c.table[i]],
     v |-> c.v + count]

\* the length codes (231-246)
ci_length(tr) ==
    With(FoldRange(LAMBDA c, code : ci_fill(c, code, 0, 0, 2 ^ EXTRA_LBITS[code]),
                   [base |-> tr.base_length, table |-> tr.length_code, v |-> 0],
                   0, LENGTH_CODES - 1),
         LAMBDA c :
      [tr EXCEPT !.base_length = c.base,
                 !.length_code = [c.table EXCEPT ![c.v - 1] = LENGTH_CODES - 1],
                 !.panic = @ \/ c.v # 256])

\* the distance codes (249-274)
ci_dist(tr) ==
    With(FoldRange(LAMBDA c, code : ci_fill(c, code, 0, 0, 2 ^ EXTRA_DBITS[code]),
                   [base |-> tr.base_dist, table |-> tr.dist_code, v |-> 0], 0, 16),
         LAMBDA c1 :
    With(FoldRange(LAMBDA c, code : ci_fill(c, code, 7, 256, 2 ^ (EXTRA_DBITS[code] - 7)),
                   [c1 EXCEPT !.v = c1.v \div 128], 16, D_CODES),
         LAMBDA c2 :
      [tr EXCEPT !.base_dist = c2.base, !.dist_code = c2.table,
                 !.panic = @ \/ c1.v # 256 \/ c2.v # 256]))

\* ci_static with the length 8 for one literal more
ci_static_mut(tr) ==
    With([n \in 0..(L_CODES + 1) |->
            IF n <= 144 THEN 8 ELSE IF n <= 255 THEN 9 ELSE IF n <= 279 THEN 7 ELSE 8],
         LAMBDA len :
      [gen_codes([tr EXCEPT !.static_ltree.len = len,
                            !.bl_count = [bits \in 0..MAX_BITS |->
                                Cardinality({n \in DOMAIN len : len[n] = bits})],
                            !.l_desc.max_code = L_CODES + 1],
                 "Literal", "Static")
       EXCEPT !.static_dtree.len = [n \in 0..(D_CODES - 1) |-> 5],
              !.static_dtree.code = [n \in 0..(D_CODES - 1) |-> bi_reverse(n, 5)]])

\* the static trees (277-311)
ci_static(tr) ==
    With([n \in 0..(L_CODES + 1) |->
            IF n <= 143 THEN 8 ELSE IF n <= 255 THEN 9 ELSE IF n <= 279 THEN 7 ELSE 8],
         LAMBDA len :
      [gen_codes([tr EXCEPT !.static_ltree.len = len,
                            !.bl_count = [bits \in 0..MAX_BITS |->
                                Cardinality({n \in DOMAIN len : len[n] = bits})],
                            !.l_desc.max_code = L_CODES + 1],
                 "Literal", "Static")
       EXCEPT !.static_dtree.len = [n \in 0..(D_CODES - 1) |-> 5],
              !.static_dtree.code = [n \in 0..(D_CODES - 1) |-> bi_reverse(n, 5)]])

ct_init(tr, attr, methodp) ==
    With([tr EXCEPT !.file_type = [some |-> TRUE, v |-> attr],
                    !.file_method = methodp, !.compressed_len = 0, !.input_len = 0],
         LAMBDA t :
      IF t.static_dtree.len[0] # 0 THEN t
      ELSE init_block(ci_static(ci_dist(ci_length(t)))))

(***************************************************************************)
(* build_tree and gen_bitlen.                                              *)
(***************************************************************************)
smaller(tr, tree_type, n, m) ==
    With(tr[get_tree_mut(tree_type)].freq, LAMBDA freq :
      freq[n] < freq[m] \/ (freq[n] = freq[m] /\ tr.depth[n] <= tr.depth[m]))

\* `while j <= self.heap_len` of pq_down_heap (1291-1305)
RECURSIVE pq_sift(_, _, _, _, _)
pq_sift(tr, tree_type, v, k, j) ==
    IF j > tr.heap_len THEN [tr EXCEPT !.heap[k] = v]
    ELSE With(IF j < tr.heap_len /\ smaller(tr, tree_type, tr.heap[j + 1], tr.heap[j])
              THEN j + 1 ELSE j,
              LAMBDA j1 :
           IF smaller(tr, tree_type, v, tr.heap[j1]) THEN [tr EXCEPT !.heap[k] = v]
           ELSE pq_sift([tr EXCEPT !.heap[k] = tr.heap[j1]], tree_type, v, j1, 2 * j1))

pq_down_heap(tr, tree_type, k) == pq_sift(tr, tree_type, tr.heap[k], k, 2 * k)

\* the state pq_remove leaves; what it returns is heap[SMALLEST] of tr
pq_remove(tr, tree_type) ==
    pq_down_heap([tr EXCEPT !.heap[SMALLEST] = tr.heap[tr.heap_len],
                            !.heap_len = @ - 1],
                 tree_type, SMALLEST)

\* one pass of `for n in 0..elems` (915-936); c = [tr, max_code]
bt_leaf(c, tree, n) ==
    IF c.tr[tree].freq[n] # 0
    THEN [tr |-> [c.tr EXCEPT !.heap_len = @ + 1, !.heap[c.tr.heap_len + 1] = n,
                              !.depth[n] = 0],
          max_code |-> n]
    ELSE [c EXCEPT !.tr[tree].len[n] = 0]

\* bt_dummy_mut that leaves opt_len as it is
RECURSIVE bt_dummy_mut(_, _)
bt_dummy_mut(c, tree_type) ==
    IF c.tr.heap_len >= 2 THEN c
    ELSE With(IF c.max_code < 2 THEN c.max_code + 1 ELSE 0, LAMBDA new_node :
           bt_dummy_mut(
             [tr |-> [c.tr EXCEPT
                        !.heap_len = @ + 1,
                        !.heap[c.tr.heap_len + 1] = new_node,
                        ![get_tree_mut(tree_type)].freq[new_node] = 1,
                        !.depth[new_node] = 0,
                        !.static_len =
                            IF tree_type # "BitLength"
                            THEN @ - c.tr[get_static_tree_mut(tree_type)].len[new_node]
                            ELSE @],
              max_code |-> IF c.max_code < 2 THEN c.max_code + 1 ELSE c.max_code],
             tree_type))

\* `while self.heap_len < 2` (939-968); c = [tr, max_code]
RECURSIVE bt_dummy(_, _)
bt_dummy(c, tree_type) ==
    IF c.tr.heap_len >= 2 THEN c
    ELSE With(IF c.max_code < 2 THEN c.max_code + 1 ELSE 0, LAMBDA new_node :
           bt_dummy(
             [tr |-> [c.tr EXCEPT
                        !.heap_len = @ + 1,
                        !.heap[c.tr.heap_len + 1] = new_node,
                        ![get_tree_mut(tree_type)].freq[new_node] = 1,
                        !.depth[new_node] = 0,
                        !.opt_len = @ - 1,
                        !.static_len =
                            IF tree_type # "BitLength"
                            THEN @ - c.tr[get_static_tree_mut(tree_type)].len[new_node]
                            ELSE @],
              max_code |-> IF c.max_code < 2 THEN c.max_code + 1 ELSE c.max_code],
             tree_type))

\* one pass of `while self.heap_len >= 2` (985-1028): t is the state after
\* pq_remove, n the node it returned; c = [tr, node]
bt_join(c, tree_type, chk, t, n, m) ==
    With(t[get_tree_mut(tree_type)].freq[n] + t[get_tree_mut(tree_type)].freq[m],
         LAMBDA freq_sum :
      [tr |-> pq_down_heap(
                [t EXCEPT !.heap_max = @ - 2,
                          !.heap[t.heap_max - 1] = n,
                          !.heap[t.heap_max - 2] = m,
                          ![get_tree_mut(tree_type)].freq[c.node] = freq_sum % 65536,
                          ![get_tree_mut(tree_type)].dad[n] = c.node,
                          ![get_tree_mut(tree_type)].dad[m] = c.node,
                          !.depth[c.node] = Max(t.depth[n], t.depth[m]) + 1,
                          !.heap[SMALLEST] = c.node,
                          !.panic = @ \/ (chk /\ freq_sum > 65535)],
                tree_type, SMALLEST),
       node |-> c.node + 1])

bt_merge(c, tree_type, chk) ==
    With(pq_remove(c.tr, tree_type), LAMBDA t :
      bt_join(c, tree_type, chk, t, c.tr.heap[SMALLEST], t.heap[SMALLEST]))

\* the extra bits of symbol n (1124-1131)
gb_xbits(tr, tree_type, n) ==
    IF n >= tr[get_desc(tree_type)].extra_base
    THEN extra_bits(tree_type)[n - tr[get_desc(tree_type)].extra_base]
    ELSE 0

\* the first pass without its limit on the length
gb_limit_mut(bits, max_length) == [bits |-> bits, overflow |-> 0]

\* `if bits > max_length { bits = max_length; overflow += 1 }` (1103-1106):
\* the length kept and what is added to overflow
gb_limit(bits, max_length) ==
    IF bits > max_length THEN [bits |-> max_length, overflow |-> 1]
    ELSE [bits |-> bits, overflow |-> 0]

\* the counts of a leaf n of length bits (1121-1151)
gb_leaf(tr, tree_type, chk, n, bits) ==
    With(tr[get_tree_mut(tree_type)].freq[n] * (bits + gb_xbits(tr, tree_type, n)),
         LAMBDA ol :
    With(IF tree_type = "BitLength" THEN 0
         ELSE tr[get_tree_mut(tree_type)].freq[n]
                * (tr[get_static_tree_mut(tree_type)].len[n] + gb_xbits(tr, tree_type, n)),
         LAMBDA sl :
      [tr EXCEPT !.bl_count[bits] = @ + 1,
                 !.opt_len = @ + ol,
                 !.static_len = @ + sl,
                 !.panic = @ \/ (chk /\ (u64_overflows(tr.opt_len, ol)
                                          \/ u64_overflows(tr.static_len, sl)))]))

\* one pass of `for h in (self.heap_max + 1)..HEAP_SIZE` (1091-1152);
\* c = [tr, overflow]
gb_node(c, tree_type, chk, h) ==
    With(get_tree_mut(tree_type), LAMBDA tree :
    With(c.tr.heap[h], LAMBDA n :
    With(gb_limit(c.tr[tree].len[c.tr[tree].dad[n]] + 1,
                  c.tr[get_desc(tree_type)].max_length),
         LAMBDA x :
      [tr |-> IF n > c.tr[get_desc(tree_type)].max_code
              THEN [c.tr EXCEPT ![tree].len[n] = x.bits]
              ELSE gb_leaf([c.tr EXCEPT ![tree].len[n] = x.bits], tree_type, chk,
                           n, x.bits),
       overflow |-> c.overflow + x.overflow])))

\* `while self.bl_count[bits] == 0 { bits -= 1 }` (1166-1168); -1 when bits
\* would pass below 0
RECURSIVE gb_short(_, _)
gb_short(bl_count, bits) ==
    IF bits < 0 THEN -1
    ELSE IF bl_count[bits] = 0 THEN gb_short(bl_count, bits - 1) ELSE bits

\* the loop that takes the overflow back (1164-1177)
RECURSIVE gb_repair(_, _, _)
gb_repair(tr, max_length, overflow) ==
    With(gb_short(tr.bl_count, max_length - 1), LAMBDA bits :
      IF bits < 0 THEN [tr EXCEPT !.panic = TRUE]
      ELSE With([tr EXCEPT !.bl_count[bits] = @ - 1,
                           !.bl_count[bits + 1] = @ + 2,
                           !.bl_count[max_length] = @ - 1],
                LAMBDA t :
             IF overflow - 2 <= 0 THEN t ELSE gb_repair(t, max_length, overflow - 2)))

\* the length `for bits in (1..=max_length).rev()` is at when it next takes
\* a node from the heap, and the leaves n left to take at that length; bits
\* is 0 when the loop is over
RECURSIVE gb_next(_, _, _)
gb_next(bl_count, bits, n) ==
    IF bits = 0 \/ n > 0 THEN [bits |-> bits, n |-> n]
    ELSE IF bits = 1 THEN [bits |-> 0, n |-> 0]
    ELSE gb_next(bl_count, bits - 1, bl_count[bits - 1])

\* the new length of leaf m (1190-1215)
gb_set(tr, tree_type, chk, m, bits) ==
    With(get_tree_mut(tree_type), LAMBDA tree :
      IF tr[tree].len[m] = bits THEN tr
      ELSE With((bits - tr[tree].len[m]) * tr[tree].freq[m], LAMBDA delta :
             [tr EXCEPT ![tree].len[m] = bits,
                        !.opt_len = @ + delta,
                        !.panic = @ \/ (chk /\ u64_overflows(tr.opt_len, delta))]))

\* one pass of `while n > 0` (1183-1217) on heap[h]; c = [tr, bits, n]
gb_relen(c, tree_type, chk, h) ==
    IF c.bits = 0 \/ c.tr.heap[h] > c.tr[get_desc(tree_type)].max_code THEN c
    ELSE With(gb_next(c.tr.bl_count, c.bits, c.n - 1), LAMBDA x :
           [tr |-> gb_set(c.tr, tree_type, chk, c.tr.heap[h], c.bits),
            bits |-> x.bits, n |-> x.n])

\* the second pass (1180-1218): it aborts if h passes below 0
gb_recompute(tr, tree_type, chk, max_length) ==
    With(gb_next(tr.bl_count, max_length, tr.bl_count[max_length]), LAMBDA x :
    With(FoldRange(LAMBDA c, i : gb_relen(c, tree_type, chk, HEAP_SIZE - 1 - i),
                   [tr |-> tr, bits |-> x.bits, n |-> x.n], 0, HEAP_SIZE),
         LAMBDA c :
      IF c.bits # 0 THEN [c.tr EXCEPT !.panic = TRUE] ELSE c.tr))

gen_bitlen(tr, tree_type, chk) ==
    With(FoldRange(LAMBDA c, h : gb_node(c, tree_type, chk, h),
                   [tr |-> [tr EXCEPT !.bl_count = Zeros(MAX_BITS + 1),
                                      ![get_tree_mut(tree_type)].len[tr.heap[tr.heap_max]] = 0],
                    overflow |-> 0],
                   tr.heap_max + 1, HEAP_SIZE),
         LAMBDA c :
      IF c.overflow = 0 THEN c.tr
      ELSE With(gb_repair(c.tr, tr[get_desc(tree_type)].max_length, c.overflow),
                LAMBDA t :
             IF t.panic THEN t
             ELSE gb_recompute(t, tree_type, chk, tr[get_desc(tree_type)].max_length)))

\* build_tree from the loop that joins the nodes on (985-1037); c = [tr, node]
bt_finish(c, tree_type, chk) ==
    With(FoldRange(LAMBDA x, i : bt_merge(x, tree_type, chk), c, 0, c.tr.heap_len - 1).tr,
         LAMBDA t :
    With(gen_bitlen([t EXCEPT !.heap_max = @ - 1,
                              !.heap[t.heap_max - 1] = t.heap[SMALLEST]],
                    tree_type, chk),
         LAMBDA t1 :
      IF t1.panic THEN t1 ELSE gen_codes(t1, tree_type, "Dynamic")))

build_tree(tr, tree_type, chk) ==
    IF tr.panic THEN tr
    ELSE
    With(bt_dummy(FoldRange(LAMBDA c, n : bt_leaf(c, get_tree_mut(tree_type), n),
                            [tr |-> [tr EXCEPT !.heap_len = 0, !.heap_max = HEAP_SIZE],
                             max_code |-> -1],
                            0, tr[get_desc(tree_type)].elems),
                  tree_type),
         LAMBDA c :
    With([c.tr EXCEPT ![get_desc(tree_type)].max_code = c.max_code], LAMBDA t :
      bt_finish([tr |-> FoldRange(LAMBDA x, i : pq_down_heap(x, tree_type, t.heap_len \div 2 - i),
                                  t, 0, t.heap_len \div 2),
                 node |-> tr[get_desc(tree_type)].elems],
                tree_type, chk)))

(***************************************************************************)
(* scan_tree and build_bl_tree.                                            *)
(***************************************************************************)
\* max_count and min_count for the run that follows (1415-1424, 735-744)
run_limits(curlen, nextlen) ==
    IF nextlen = 0 THEN [max_count |-> 138, min_count |-> 3]
    ELSE IF curlen = nextlen THEN [max_count |-> 6, min_count |-> 3]
    ELSE [max_count |-> 7, min_count |-> 4]

\* the counts of a run of count lengths curlen (1398-1410)
sc_run(tr, curlen, prevlen, count, min_count) ==
    IF count < min_count THEN [tr EXCEPT !.bl_tree.freq[curlen] = @ + count]
    ELSE IF curlen # 0
    THEN [tr EXCEPT !.bl_tree.freq[curlen] = IF curlen # prevlen THEN @ + 1 ELSE @,
                    !.bl_tree.freq[REP_3_6] = @ + 1]
    ELSE IF count <= 10 THEN [tr EXCEPT !.bl_tree.freq[REPZ_3_10] = @ + 1]
    ELSE [tr EXCEPT !.bl_tree.freq[REPZ_11_138] = @ + 1]

\* one pass of `for n in 0..=max_code` of scan_tree (1384-1426);
\* c = [tr, prevlen, nextlen, count, max_count, min_count]
sc_step(c, lengths, max_code, n) ==
    With(IF n + 1 <= max_code THEN lengths[n + 1] ELSE 0, LAMBDA nextlen :
      IF c.count + 1 < c.max_count /\ c.nextlen = nextlen
      THEN [c EXCEPT !.count = @ + 1]
      ELSE [tr |-> sc_run(c.tr, c.nextlen, c.prevlen, c.count + 1, c.min_count),
            prevlen |-> c.nextlen, nextlen |-> nextlen, count |-> 0,
            max_count |-> run_limits(c.nextlen, nextlen).max_count,
            min_count |-> run_limits(c.nextlen, nextlen).min_count])

scan_tree(tr, tree_type) ==
    With(tr[get_tree_mut(tree_type)].len, LAMBDA lengths :
    With(tr[get_desc(tree_type)].max_code, LAMBDA max_code :
      IF tr.panic THEN tr
      ELSE IF max_code + 1 >= Cardinality(DOMAIN lengths) THEN [tr EXCEPT !.panic = TRUE]
      ELSE FoldRange(LAMBDA c, n : sc_step(c, lengths, max_code, n),
                     [tr |-> tr, prevlen |-> -1, nextlen |-> lengths[0], count |-> 0,
                      max_count |-> run_limits(-1, lengths[0]).max_count,
                      min_count |-> run_limits(-1, lengths[0]).min_count],
                     0, max_code + 1).tr))

\* the loop that takes max_blindex for the code, not BL_ORDER[max_blindex]
RECURSIVE bb_index_mut(_, _)
bb_index_mut(tr, max_blindex) ==
    IF max_blindex >= 3 /\ tr.bl_tree.len[max_blindex] = 0
    THEN bb_index_mut(tr, max_blindex - 1) ELSE max_blindex

\* `while max_blindex >= 3` (1335-1341)
RECURSIVE bb_index(_, _)
bb_index(tr, max_blindex) ==
    IF max_blindex >= 3 /\ tr.bl_tree.len[BL_ORDER[max_blindex]] = 0
    THEN bb_index(tr, max_blindex - 1) ELSE max_blindex

\* build_bl_tree that counts the three counts as 5 + 5 bits
build_bl_tree_mut(tr, chk) ==
    With(build_tree(scan_tree(scan_tree(tr, "Literal"), "Distance"), "BitLength", chk),
         LAMBDA t :
    With(IF t.panic THEN 0 ELSE bb_index(t, BL_CODES - 1), LAMBDA max_blindex :
      [tr |-> [t EXCEPT !.opt_len = @ + 3 * (max_blindex + 1) + 5 + 5],
       max_blindex |-> max_blindex]))

\* build_bl_tree: the state it leaves and max_blindex, the value it returns
build_bl_tree(tr, chk) ==
    With(build_tree(scan_tree(scan_tree(tr, "Literal"), "Distance"), "BitLength", chk),
         LAMBDA t :
    With(IF t.panic THEN 0 ELSE bb_index(t, BL_CODES - 1), LAMBDA max_blindex :
      [tr |-> [t EXCEPT !.opt_len = @ + 3 * (max_blindex + 1) + 5 + 5 + 4],
       max_blindex |-> max_blindex]))

(***************************************************************************)
(* ct_tally.                                                               *)
(***************************************************************************)
d_code(tr, dist) ==
    IF dist < 256 THEN tr.dist_code[dist] ELSE tr.dist_code[256 + (dist \div 128)]

\* `self.flags |= self.flag_bit`
ct_flag(flags, flag_bit) ==
    IF flag_bit = 0 \/ (flags \div flag_bit) % 2 = 1 THEN flags ELSE flags + flag_bit

\* ct_match that counts the distance code of dist + 1
ct_match_mut(tr, dist, lc) ==
    IF ~(dist < MAX_DIST /\ lc <= MAX_MATCH - MIN_MATCH /\ d_code(tr, dist) < D_CODES)
    THEN [tr EXCEPT !.panic = TRUE]
    ELSE [tr EXCEPT !.dyn_ltree.freq[tr.length_code[lc] + LITERALS + 1] = @ + 1,
                    !.dyn_dtree.freq[d_code(tr, dist + 1)] = @ + 1,
                    !.d_buf[tr.last_dist] = dist % 65536,
                    !.last_dist = @ + 1,
                    !.flags = ct_flag(@, tr.flag_bit)]

\* the match branch (426-444); dist is the distance less one
ct_match(tr, dist, lc) ==
    IF ~(dist < MAX_DIST /\ lc <= MAX_MATCH - MIN_MATCH /\ d_code(tr, dist) < D_CODES)
    THEN [tr EXCEPT !.panic = TRUE]
    ELSE [tr EXCEPT !.dyn_ltree.freq[tr.length_code[lc] + LITERALS + 1] = @ + 1,
                    !.dyn_dtree.freq[d_code(tr, dist)] = @ + 1,
                    !.d_buf[tr.last_dist] = dist % 65536,
                    !.last_dist = @ + 1,
                    !.flags = ct_flag(@, tr.flag_bit)]

\* `if (self.last_lit & 7) == 0` (454-459)
ct_flags_out(tr) ==
    IF tr.last_lit % 8 = 0
    THEN [tr EXCEPT !.flag_buf[tr.last_flags] = tr.flags, !.last_flags = @ + 1,
                    !.flags = 0, !.flag_bit = 1]
    ELSE tr

\* the guess whether to stop the block here (463-489).  The program looks
\* every 0x1000 symbols, an eighth of its LIT_BUFSIZE; so does the model of
\* its LIT_BUFSIZE.
ct_stop(tr, level, in_length) ==
    /\ level > 2
    /\ tr.last_lit % (LIT_BUFSIZE \div 8) = 0
    /\ tr.last_dist < tr.last_lit \div 2
    /\ FoldRange(LAMBDA out_length, dcode :
                    out_length + tr.dyn_dtree.freq[dcode] * (5 + EXTRA_DBITS[dcode]),
                 tr.last_lit * 8, 0, D_CODES) \div 8 < in_length \div 2

\* ct_tally without its last line, the test for full buffers
ct_tally_mut(tr, dist, lc, level, in_length) ==
    With(ct_flags_out(
           [(IF dist = 0
             THEN [tr EXCEPT !.inbuf[tr.last_lit] = lc % 256, !.last_lit = @ + 1,
                             !.dyn_ltree.freq[lc] = @ + 1]
             ELSE ct_match([tr EXCEPT !.inbuf[tr.last_lit] = lc % 256,
                                      !.last_lit = @ + 1],
                           dist - 1, lc))
            EXCEPT !.flag_bit = (2 * @) % 256]),
         LAMBDA t :
      [tr |-> t, flush |-> ct_stop(t, level, in_length)])

\* ct_tally: the state it leaves and the value it returns; level is
\* state.level and in_length is deflate.strstart - deflate.block_start
ct_tally(tr, dist, lc, level, in_length) ==
    With(ct_flags_out(
           [(IF dist = 0
             THEN [tr EXCEPT !.inbuf[tr.last_lit] = lc % 256, !.last_lit = @ + 1,
                             !.dyn_ltree.freq[lc] = @ + 1]
             ELSE ct_match([tr EXCEPT !.inbuf[tr.last_lit] = lc % 256,
                                      !.last_lit = @ + 1],
                           dist - 1, lc))
            EXCEPT !.flag_bit = (2 * @) % 256]),
         LAMBDA t :
      [tr |-> t,
       flush |-> ct_stop(t, level, in_length)
                   \/ t.last_lit = LIT_BUFSIZE - 1 \/ t.last_dist = DIST_BUFSIZE])

(***************************************************************************)
(* send_tree, send_all_trees, compress_block, copy_block.                  *)
(***************************************************************************)
send_code(tr, c, tree) == send_bits(tr, tree.code[c], tree.len[c])

\* `for _ in 0..count { self.send_code(curlen) }` (709-711)
st_repeat(tr, curlen, count) ==
    FoldRange(LAMBDA t, i : send_code(t, curlen, tr.bl_tree), tr, 0, count)

\* st_run that does not send a new length before its repeat code
st_run_mut(tr, curlen, prevlen, count, min_count) ==
    IF count < min_count THEN st_repeat(tr, curlen, count)
    ELSE IF curlen # 0
    THEN With(count, LAMBDA rest :
           IF ~(rest >= 3 /\ rest <= 6)
           THEN [st_repeat(tr, curlen, count - rest) EXCEPT !.panic = TRUE]
           ELSE send_bits(send_code(st_repeat(tr, curlen, count - rest),
                                    REP_3_6, tr.bl_tree),
                          rest - 3, 2))
    ELSE IF count <= 10
    THEN send_bits(send_code(tr, REPZ_3_10, tr.bl_tree), count - 3, 3)
    ELSE send_bits(send_code(tr, REPZ_11_138, tr.bl_tree), count - 11, 7)

\* what is sent for a run of count lengths curlen (707-730)
st_run(tr, curlen, prevlen, count, min_count) ==
    IF count < min_count THEN st_repeat(tr, curlen, count)
    ELSE IF curlen # 0
    THEN With(IF curlen # prevlen THEN count - 1 ELSE count, LAMBDA rest :
           IF ~(rest >= 3 /\ rest <= 6)
           THEN [st_repeat(tr, curlen, count - rest) EXCEPT !.panic = TRUE]
           ELSE send_bits(send_code(st_repeat(tr, curlen, count - rest),
                                    REP_3_6, tr.bl_tree),
                          rest - 3, 2))
    ELSE IF count <= 10
    THEN send_bits(send_code(tr, REPZ_3_10, tr.bl_tree), count - 3, 3)
    ELSE send_bits(send_code(tr, REPZ_11_138, tr.bl_tree), count - 11, 7)

\* one pass of `for n in 0..=max_code` of send_tree (694-746);
\* c = [tr, prevlen, nextlen, count, max_count, min_count]
st_step(c, lengths, max_code, n) ==
    With(IF n + 1 <= max_code THEN lengths[n + 1] ELSE -1, LAMBDA nextlen :
      IF c.tr.panic THEN c
      ELSE IF c.count + 1 < c.max_count /\ c.nextlen = nextlen
      THEN [c EXCEPT !.count = @ + 1]
      ELSE [tr |-> st_run(c.tr, c.nextlen, c.prevlen, c.count + 1, c.min_count),
            prevlen |-> c.nextlen, nextlen |-> nextlen, count |-> 0,
            max_count |-> run_limits(c.nextlen, nextlen).max_count,
            min_count |-> run_limits(c.nextlen, nextlen).min_count])

send_tree(tr, tree_type) ==
    With(tr[get_tree_mut(tree_type)].len, LAMBDA lengths :
    With(tr[get_desc(tree_type)].max_code, LAMBDA max_code :
      FoldRange(LAMBDA c, n : st_step(c, lengths, max_code, n),
                [tr |-> tr, prevlen |-> -1, nextlen |-> lengths[0], count |-> 0,
                 max_count |-> run_limits(-1, lengths[0]).max_count,
                 min_count |-> run_limits(-1, lengths[0]).min_count],
                0, max_code + 1).tr))

send_all_trees(tr, lcodes, dcodes, blcodes) ==
    IF ~(lcodes >= 257 /\ dcodes >= 1 /\ blcodes >= 4)
         \/ ~(lcodes <= L_CODES /\ dcodes <= D_CODES /\ blcodes <= BL_CODES)
    THEN [tr EXCEPT !.panic = TRUE]
    ELSE send_tree(
           send_tree(
             FoldRange(LAMBDA t, rank : send_bits(t, tr.bl_tree.len[BL_ORDER[rank]], 3),
                       send_bits(send_bits(send_bits(tr, lcodes - 257, 5),
                                           dcodes - 1, 5),
                                 blcodes - 4, 4),
                       0, blcodes),
             "Literal"),
           "Distance")

\* the distance of a match (825-839)
cb_dist(tr, dist, dtree) ==
    With(d_code(tr, dist), LAMBDA code :
      IF ~(code < D_CODES) THEN [tr EXCEPT !.panic = TRUE]
      ELSE IF EXTRA_DBITS[code] # 0
      THEN send_bits(send_code(tr, code, dtree), dist - tr.base_dist[code],
                     EXTRA_DBITS[code])
      ELSE send_code(tr, code, dtree))

\* the length of a match (814-823)
cb_length(tr, lc, ltree) ==
    With(tr.length_code[lc], LAMBDA code :
      IF EXTRA_LBITS[code] # 0
      THEN send_bits(send_code(tr, code + LITERALS + 1, ltree),
                     lc - tr.base_length[code], EXTRA_LBITS[code])
      ELSE send_code(tr, code + LITERALS + 1, ltree))

\* cb_symbol that keeps to the first flag of each flag byte
cb_symbol_mut(c, ltree, dtree, lx) ==
    With(IF lx % 8 = 0 THEN c.tr.flag_buf[c.fx] % 256 ELSE c.flag, LAMBDA flag :
      IF c.tr.panic THEN c
      ELSE [tr |-> IF flag % 2 = 0 THEN send_code(c.tr, c.tr.inbuf[lx], ltree)
                   ELSE cb_dist(cb_length(c.tr, c.tr.inbuf[lx], ltree),
                                c.tr.d_buf[c.dx], dtree),
            dx |-> c.dx + (flag % 2),
            fx |-> IF lx % 8 = 0 THEN c.fx + 1 ELSE c.fx,
            flag |-> flag])

\* one pass of `while lx < self.last_lit` (799-843); c = [tr, dx, fx, flag]
cb_symbol(c, ltree, dtree, lx) ==
    With(IF lx % 8 = 0 THEN c.tr.flag_buf[c.fx] % 256 ELSE c.flag, LAMBDA flag :
      IF c.tr.panic THEN c
      ELSE [tr |-> IF flag % 2 = 0 THEN send_code(c.tr, c.tr.inbuf[lx], ltree)
                   ELSE cb_dist(cb_length(c.tr, c.tr.inbuf[lx], ltree),
                                c.tr.d_buf[c.dx], dtree),
            dx |-> c.dx + (flag % 2),
            fx |-> IF lx % 8 = 0 THEN c.fx + 1 ELSE c.fx,
            flag |-> flag \div 2])

compress_block(tr, use_static) ==
    With(IF use_static THEN tr.static_ltree ELSE tr.dyn_ltree, LAMBDA ltree :
    With(IF use_static THEN tr.static_dtree ELSE tr.dyn_dtree, LAMBDA dtree :
      send_code(FoldRange(LAMBDA c, lx : cb_symbol(c, ltree, dtree, lx),
                          [tr |-> tr, dx |-> 0, fx |-> 0, flag |-> 0],
                          0, tr.last_lit).tr,
                END_BLOCK, ltree)))

\* copy_block; buf is the slice
copy_block(tr, buf, len, header) ==
    FoldRange(LAMBDA t, i : put_byte(t, buf[i + 1]),
              IF header
              THEN put_short(put_short(bi_windup(tr), len % 65536),
                             65535 - (len % 65536))
              ELSE bi_windup(tr),
              0, Min(len, Len(buf)))

(***************************************************************************)
(* flush_block.                                                            *)
(***************************************************************************)
set_file_type(tr) ==
    With(FoldRange(LAMBDA c, n :
                      IF n < 7 \/ n >= 128
                      THEN [c EXCEPT !.bin_freq = @ + tr.dyn_ltree.freq[n]]
                      ELSE [c EXCEPT !.ascii_freq = @ + tr.dyn_ltree.freq[n]],
                   [ascii_freq |-> 0, bin_freq |-> 0], 0, LITERALS),
         LAMBDA c :
      IF ~tr.file_type.some THEN [tr EXCEPT !.panic = TRUE]
      ELSE [tr EXCEPT !.file_type.v =
               IF c.bin_freq > c.ascii_freq \div 4 THEN BINARY ELSE ASCII])

\* fn seekable (579-581)
seekable == FALSE

\* the block put out (583-617); eof_flag is 1 or 0
fb_block(tr, max_blindex, buf, stored_len, eof_flag, opt_lenb, static_lenb, chk) ==
    IF stored_len <= opt_lenb /\ eof_flag = 1 /\ tr.compressed_len = 0 /\ seekable
    THEN IF ~buf.some THEN [tr EXCEPT !.panic = TRUE]
         ELSE [copy_block(tr, buf.v, stored_len, FALSE)
               EXCEPT !.compressed_len = stored_len * 8, !.file_method = STORED]
    ELSE IF stored_len + 4 <= opt_lenb /\ buf.some
    THEN [copy_block(send_bits(tr, STORED_BLOCK * 2 + eof_flag, 3),
                     buf.v, stored_len, TRUE)
          EXCEPT !.compressed_len = ((@ + 3 + 7) \div 8) * 8 + (stored_len + 4) * 8]
    ELSE IF static_lenb = opt_lenb
    THEN [compress_block(send_bits(tr, STATIC_TREES * 2 + eof_flag, 3), TRUE)
          EXCEPT !.compressed_len = @ + 3 + tr.static_len,
                 !.panic = @ \/ (chk /\ (u64_overflows(3, tr.static_len)
                                          \/ u64_overflows(tr.compressed_len,
                                                           3 + tr.static_len)))]
    ELSE [compress_block(
            send_all_trees(send_bits(tr, DYN_TREES * 2 + eof_flag, 3),
                           tr.l_desc.max_code + 1, tr.d_desc.max_code + 1,
                           max_blindex + 1),
            FALSE)
          EXCEPT !.compressed_len = @ + 3 + tr.opt_len,
                 !.panic = @ \/ (chk /\ (u64_overflows(3, tr.opt_len)
                                          \/ u64_overflows(tr.compressed_len,
                                                           3 + tr.opt_len)))]

\* the choice without `if static_lenb <= opt_lenb { opt_lenb = static_lenb }`
fb_choose_mut(tr, max_blindex, buf, stored_len, eof, chk) ==
    With(u64_shr3(tr.static_len + 3 + 7), LAMBDA static_lenb :
    With(fb_block([tr EXCEPT !.input_len = @ + stored_len], max_blindex, buf,
                  stored_len, IF eof THEN 1 ELSE 0,
                  u64_shr3(tr.opt_len + 3 + 7), static_lenb, chk),
         LAMBDA t :
      IF tr.panic \/ (chk /\ u64_overflows(tr.opt_len, 3 + 7))
      THEN [tr EXCEPT !.panic = TRUE]
      ELSE IF t.panic THEN t
      ELSE IF eof
      THEN [bi_windup(init_block(t)) EXCEPT !.compressed_len = t.compressed_len + 7]
      ELSE init_block(t)))

\* flush_block from the choice of the block on (557-627)
fb_choose(tr, max_blindex, buf, stored_len, eof, chk) ==
    With(u64_shr3(tr.static_len + 3 + 7), LAMBDA static_lenb :
    With(fb_block([tr EXCEPT !.input_len = @ + stored_len], max_blindex, buf,
                  stored_len, IF eof THEN 1 ELSE 0,
                  Min(static_lenb, u64_shr3(tr.opt_len + 3 + 7)), static_lenb, chk),
         LAMBDA t :
      IF tr.panic \/ (chk /\ u64_overflows(tr.opt_len, 3 + 7))
      THEN [tr EXCEPT !.panic = TRUE]
      ELSE IF t.panic THEN t
      ELSE IF eof
      THEN [bi_windup(init_block(t)) EXCEPT !.compressed_len = t.compressed_len + 7]
      ELSE init_block(t)))

\* flush_block; buf is [some, v], an Option of a slice
flush_block(tr, buf, stored_len, eof, chk) ==
    With([tr EXCEPT !.flag_buf[tr.last_flags] = tr.flags], LAMBDA t0 :
    With(IF ~t0.file_type.some THEN set_file_type(t0) ELSE t0, LAMBDA t :
      IF t.panic THEN t
      ELSE IF stored_len = 0 /\ eof
      THEN [send_bits(t, STORED_BLOCK * 2 + 1, 3)
            EXCEPT !.compressed_len = 0, !.file_method = STORED]
      ELSE With(build_bl_tree(build_tree(build_tree(t, "Literal", chk),
                                         "Distance", chk), chk),
                LAMBDA b :
             fb_choose(b.tr, b.max_blindex, buf, stored_len, eof, chk))))

(***************************************************************************)
(* State.                                                                  *)
(***************************************************************************)
VARIABLES
    checked,    \* TRUE: the build checks arithmetic overflow (debug), FALSE: it wraps
    pc,         \* the step the driver of the specification is at
    hb,         \* the arguments [b, n, s, m] of a huft_build call
    hres,       \* the result of that call
    look,       \* a lookup in the built table: [pat, r, e, n, isT, bits, panic]
    dec,        \* the decoder state of the inflate call
    prev,       \* the decoder state before the block decoded last
    hist,       \* [e, r, pos, end] of every inflate_block call, in order: the flag
                \* and the result of the call, the bit of the stream it began at
                \* and the bit it left off at
    ret,        \* the value inflate returned
    enc,        \* the encoder state
    inp         \* the drawn input of the encoder and how far its driver is in it

huftVars == <<hb, hres, look>>
decVars == <<dec, prev, hist, ret>>
encVars == <<enc, inp>>
vars == <<checked, pc, hb, hres, look, dec, prev, hist, ret, enc, inp>>

\* the encoder and its input where a specification does not run the encoder
NoTrees == [panic |-> FALSE]
NoInput == [syms |-> <<>>]

NoResult == [ret |-> 0, t |-> HuftDefault, m |-> 0, hufts |-> 0, panic |-> FALSE]
NoLook == [pat |-> 0, r |-> 0, e |-> 0, n |-> 0, isT |-> FALSE, bits |-> 0,
           panic |-> FALSE]

(***************************************************************************)
(* SpecHuft: huft_build on a drawn code-length vector, then the lookup of  *)
(* one bit pattern in the table it built.                                  *)
(***************************************************************************)
HuftInputs ==
    {[b |-> v, n |-> MaxSyms, s |-> s, m |-> m] :
        v \in [0..(MaxSyms - 1) -> 0..MaxLenBits], s \in {0, MaxSyms}, m \in 1..MaxLookup}
    \cup {[b |-> fixed_l, n |-> 288, s |-> 257, m |-> 7],
          [b |-> fixed_ld, n |-> 30, s |-> 0, m |-> 5]}

\* the longest and the shortest length in use
hb_g(a) == CHOOSE len \in 0..BMAX :
               /\ \E i \in 0..(a.n - 1) : a.b[i] = len
               /\ \A i \in 0..(a.n - 1) : a.b[i] <= len
hb_k(a) == CHOOSE len \in 0..BMAX :
               /\ len > 0 => \E i \in 0..(a.n - 1) : a.b[i] = len
               /\ \A i \in 0..(a.n - 1) : a.b[i] = 0 \/ a.b[i] >= len
               /\ len = 0 => \A i \in 0..(a.n - 1) : a.b[i] = 0

HuftInit ==
    /\ checked \in BOOLEAN
    /\ hb \in HuftInputs
    /\ hres = NoResult
    /\ look = NoLook
    /\ pc = "hb_start"
    /\ dec = NewDecoder(<<>>) /\ prev = NewDecoder(<<>>) /\ hist = <<>> /\ ret = 0
    /\ enc = NoTrees /\ inp = NoInput

HuftBuild ==
    /\ pc = "hb_start"
    /\ hres' = huft_build(hb.b, hb.n, hb.s,
                          IF hb.s = 0 THEN cpdist ELSE cplens,
                          IF hb.s = 0 THEN cpdext ELSE cplext, hb.m, checked)
    /\ pc' = "hb_built"
    /\ UNCHANGED <<checked, hb, look, decVars, encVars>>

\* the walk of inflate_codes on a pattern of as many bits as the longest
\* code, the bits above them zero
HuftLookup ==
    /\ pc = "hb_built"
    /\ ~hres.panic
    /\ hres.ret # 2
    /\ \E p \in 0..(2 ^ hb_g(hb) - 1) :
       \E m \in {ic_lookup(NewDecoder(<<p % 256, p \div 256, 0>>), hres.t, hres.m)} :
          look' = [pat |-> p, r |-> m.r, e |-> m.t.e, n |-> m.t.n,
                      isT |-> m.t.isT, bits |-> 8 * m.inptr - m.k,
                      panic |-> m.panic]
    /\ pc' = "hb_looked"
    /\ UNCHANGED <<checked, hb, hres, decVars, encVars>>

HuftNext == HuftBuild \/ HuftLookup

SpecHuft == HuftInit /\ [][HuftNext]_vars

(***************************************************************************)
(* SpecInflate: inflate on a drawn input stream, one action per pass of    *)
(* its block loop.                                                         *)
(***************************************************************************)
\* the loop without its test of the last-block flag
inflate_next_mut_e(r, e) == IF r # 0 THEN "in_done" ELSE "in_loop"

\* the loop without its test of the result
inflate_next_mut_r(r, e) == IF e # 0 THEN "in_tail" ELSE "in_loop"

\* what the block loop of inflate does after inflate_block returned r with
\* last-block flag e (1344-1355): return r, leave the loop, or go round
inflate_next(r, e) ==
    IF r # 0 THEN "in_done" ELSE IF e # 0 THEN "in_tail" ELSE "in_loop"

\* the loop with the test `self.bk > 8`
inflate_unget_mut(m) ==
    IF m.bk > 8 THEN [m EXCEPT !.bk = @ - 8, !.inptr = @ - 1] ELSE m

\* `while self.bk >= 8 { self.bk -= 8; state.inptr -= 1 }` (1361-1364)
RECURSIVE inflate_unget(_)
inflate_unget(m) ==
    IF m.bk >= 8 THEN inflate_unget([m EXCEPT !.bk = @ - 8, !.inptr = @ - 1]) ELSE m

\* the streams drawn: stored, fixed and dynamic blocks, well-formed and not,
\* last and not last
Chunks ==
    { <<1, 1, 0, 254, 255, 65>>,          \* stored, last, LEN 1
      <<0, 2, 0, 253, 255, 65, 66>>,      \* stored, LEN 2
      <<1, 0, 0, 255, 255>>,              \* stored, last, LEN 0
      <<0, 0, 0, 255, 255, 1, 0, 0, 255, 255>>,  \* two stored blocks, the second last
      <<0, 9, 0, 246, 255, 1, 2, 3, 4, 5, 6, 7, 8, 9>>,  \* stored, LEN 9
      <<1, 1, 0, 255, 255, 65>>,          \* stored, last, NLEN wrong
      <<0, 1, 0, 0, 0>>,                  \* stored, NLEN wrong
      <<3, 0>>,                           \* fixed, last, no symbol
      <<75, 4, 2, 0>>,                    \* fixed, last, "a" and a match (3, 1)
      <<74, 76, 2, 0>>,                   \* fixed, "ab"
      <<75, 68, 0, 0>>,                   \* fixed, last, "a" and a match (10, 1)
      <<27, 3, 0>>,                       \* fixed, last, length symbol 286
      <<3, 2, 0>>,                        \* fixed, last, a match (3, 1) and no more
      <<7>>, <<6>>,                       \* block type 3, last and not
      <<253, 255, 255>>,                  \* dynamic, last, HLIT field 31
      <<245, 0, 128, 4>>,                 \* dynamic, last, HLIT field 30
      <<4, 30, 128, 4>>,                  \* dynamic, HDIST field 30
      <<5, 31, 0>>,                       \* dynamic, last, HDIST field 31
      <<5, 192, 129, 8, 0, 0, 0, 0, 32, 214, 253, 37, 78>>,   \* dynamic, last, "a"
      <<4, 192, 129, 8, 0, 0, 0, 0, 32, 214, 253, 37, 142>>,  \* dynamic, "aa"
      <<5, 1, 0>>,                        \* dynamic, last, no usable length code
      \* dynamic, literal 5; its lengths are sent as 16 (4 times), 3, 16 (3),
      \* 17 (5), 16 (3), 18 (138), 18 (102), 1, 0
      \* and after it a last dynamic block whose second 18 is a run of 105
      <<4, 192, 55, 9, 0, 0, 0, 3, 176, 213, 113, 13, 255, 110, 67, 21, 0, 223,
        36, 0, 0, 0, 12, 192, 86, 199, 53, 252, 235, 5>>,
      \* dynamic, last; as the first of these, but the last 0 is a 16 (3)
      <<5, 192, 55, 9, 0, 0, 0, 3, 176, 213, 113, 13, 255, 110, 51, 0>>,
      \* dynamic, last, literal 4; the lengths are 3 for the literal 4 and 1
      \* for the end of block, an incomplete set
      <<5, 192, 55, 9, 0, 0, 0, 3, 176, 85, 255, 154, 67, 0>>,
      \* dynamic, last, literal 2; the lengths are 2, 3, .., 9, 9 for the
      \* literals 0..8 and 1 for the end of block, whose code is looked up in
      \* 9 bits
      <<5, 192, 129, 141, 36, 65, 16, 195, 48, 185, 122, 246, 254, 243, 143, 152, 56>> }

RECURSIVE Streams(_)
Streams(n) ==
    IF n = 0 THEN {<<>>}
    ELSE Streams(n - 1) \cup {s \o c : s \in Streams(n - 1), c \in Chunks}

InflateInit ==
    /\ checked \in BOOLEAN
    /\ \E s \in Streams(MaxChunks) : dec = NewDecoder(s)
    /\ prev = NewDecoder(<<>>)
    /\ hist = <<>>
    /\ ret = 0
    /\ pc = "in_start"
    /\ hb = [b |-> <<>>, n |-> 0, s |-> 0, m |-> 0] /\ hres = NoResult /\ look = NoLook
    /\ enc = NoTrees /\ inp = NoInput

\* inflate up to its loop (1329-1340)
InflateStart ==
    /\ pc = "in_start"
    /\ dec' = [dec EXCEPT !.outcnt = 0, !.bk = 0, !.bb = 0]
    /\ pc' = "in_loop"
    /\ UNCHANGED <<checked, huftVars, prev, hist, ret, encVars>>

\* one pass of the loop (1341-1356): a panic of the block decoder ends the
\* program, a block that does not end stays in the block
InflateBlock ==
    /\ pc = "in_loop"
    /\ \E m \in {inflate_block([dec EXCEPT !.hufts = 0, !.st = "run", !.ran = "none"],
                                checked)} :
          /\ dec' = m
          /\ prev' = dec
          /\ hist' = Append(hist, [e |-> m.e, r |-> m.r, pos |-> 8 * dec.taken - dec.bk,
                                   end |-> 8 * m.taken - m.bk])
          /\ pc' = IF m.panic THEN "in_panic"
                   ELSE IF m.st = "hang" THEN "in_hang"
                   ELSE inflate_next(m.r, m.e)
          /\ ret' = IF ~m.panic /\ m.st # "hang" /\ m.r # 0 THEN m.r ELSE ret
    /\ UNCHANGED <<checked, huftVars, encVars>>

\* inflate after its loop (1361-1370)
InflateTail ==
    /\ pc = "in_tail"
    /\ dec' = With(inflate_unget(dec), LAMBDA m : flush_output(m, m.outcnt))
    /\ ret' = 0
    /\ pc' = "in_done"
    /\ UNCHANGED <<checked, huftVars, prev, hist, encVars>>

InflateNext == InflateStart \/ InflateBlock \/ InflateTail

SpecInflate == InflateInit /\ [][InflateNext]_vars

\* inflate runs on: it does not stop before its loop or after it.  (That a
\* pass of the loop is taken is not needed for what is proved of this
\* specification.)
SpecInflateFair == SpecInflate /\ WF_vars(InflateStart) /\ WF_vars(InflateTail)

(***************************************************************************)
(* SpecTree: build_tree on a drawn frequency vector, then the decode table *)
(* that huft_build makes of the lengths, as inflate_dynamic calls it, and  *)
(* the lookup of the bits send_code puts out for one symbol.               *)
(***************************************************************************)
\* UNKNOWN, the file type before it is set (lib.rs)
UNKNOWN == 65535

\* the encoder after ct_init
InitTrees == ct_init(NewTrees, UNKNOWN, DEFLATED)

\* f[1] = a, f[2] = b, f[i] = f[i-1] + f[i-2]
RECURSIVE SumSeq(_, _, _)
SumSeq(a, b, k) ==
    IF k = 0 THEN <<>> ELSE IF k = 1 THEN <<a>> ELSE IF k = 2 THEN <<a, b>>
    ELSE With(SumSeq(a, b, k - 1), LAMBDA f : Append(f, f[k - 1] + f[k - 2]))

\* 1, 1, 2, 4, 8, ..
DoubleSeq(k) == [i \in 1..k |-> IF i = 1 THEN 1 ELSE 2 ^ (i - 2)]

\* the frequencies drawn: every vector of up to MaxLeaves counts up to
\* MaxFreq, and vectors whose Huffman tree is deeper than the limit of the
\* tree they are drawn for
FlatFreqs == UNION {[1..k -> 1..MaxFreq] : k \in 0..MaxLeaves}
DeepFreqs(max_length) ==
    {SumSeq(1, b, k) : b \in 1..2, k \in (max_length + 2)..(max_length + 3)}
    \cup (IF max_length < 8 THEN {DoubleSeq(k) : k \in (max_length + 2)..(max_length + 3)}
          ELSE {})

\* a vector whose Huffman tree has leaves deeper than the limit and no leaf
\* one level above it: the repair of gen_bitlen moves a leaf up from the
\* limit and one down from two levels above it
GapFreqs(max_length) == {<<1, 1, 2, 3, 3>> \o SumSeq(7, 11, max_length - 2)}

\* the matches of a block all of one distance code: the second or the fourth
\* of the symbols alone
LoneFreqs == {<<0, 2>>, <<0, 0, 0, 1>>}

\* the symbols the drawn frequencies go to, in order
TreeSyms(tree_type) ==
    CASE tree_type = "Literal" ->
           <<256, 97, 0, 255, 257, 285, 65, 66, 67, 68, 69, 70, 71, 72, 73, 74, 75, 76>>
      [] tree_type = "Distance" ->
           <<0, 29, 4, 1, 2, 3, 5, 6, 7, 8, 9, 10, 11, 12, 13, 14, 15, 16>>
      [] OTHER -> <<0, 18, 16, 17, 8, 1, 2, 3, 4, 5>>

\* END_BLOCK is counted once in every block, and a block holds a symbol; the
\* lengths of two trees hold two different codes at least
TreeInputs ==
    {[tree_type |-> "Literal", freq |-> f] :
        f \in {g \in FlatFreqs \cup DeepFreqs(MAX_BITS) \cup GapFreqs(MAX_BITS) :
                  Len(g) >= 2 /\ g[1] = 1}}
    \cup {[tree_type |-> "Distance", freq |-> f] :
            f \in FlatFreqs \cup DeepFreqs(MAX_BITS) \cup GapFreqs(MAX_BITS)
                     \cup LoneFreqs}
    \cup {[tree_type |-> "BitLength", freq |-> f] :
            f \in {g \in FlatFreqs \cup DeepFreqs(MAX_BL_BITS) \cup GapFreqs(MAX_BL_BITS) :
                      Len(g) >= 2}}

\* the encoder when build_tree is called on a drawn vector: the trees built
\* before it in the block have counted PriorLen bits
TreeStart(a) ==
    [InitTrees EXCEPT
       ![get_tree_mut(a.tree_type)].freq =
           [n \in DOMAIN @ |->
              IF \E i \in 1..Len(a.freq) : TreeSyms(a.tree_type)[i] = n
              THEN a.freq[CHOOSE i \in 1..Len(a.freq) : TreeSyms(a.tree_type)[i] = n]
              ELSE 0],
       !.opt_len = IF a.tree_type = "Literal" THEN 0 ELSE PriorLen,
       !.static_len = IF a.tree_type = "Literal" THEN 0 ELSE PriorLen]

\* the huft_build call of inflate_dynamic for the lengths of a tree
\* (inflate.rs 1100, 1217, 1228)
TreeCall(tr, tree_type) ==
    With(IF tree_type = "BitLength" THEN BL_CODES
         ELSE tr[get_desc(tree_type)].max_code + 1, LAMBDA n :
      [b |-> [i \in 0..(n - 1) |-> tr[get_tree_mut(tree_type)].len[i]], n |-> n,
       s |-> CASE tree_type = "Literal" -> 257 [] tree_type = "Distance" -> 0
               [] OTHER -> 19,
       m |-> CASE tree_type = "Literal" -> 9 [] tree_type = "Distance" -> 6
               [] OTHER -> 7])

TreeInit ==
    /\ checked \in BOOLEAN
    /\ inp \in TreeInputs
    /\ enc = TreeStart(inp)
    /\ pc = "bt_start"
    /\ hb = [b |-> <<>>, n |-> 0, s |-> 0, m |-> 0] /\ hres = NoResult /\ look = NoLook
    /\ dec = NewDecoder(<<>>) /\ prev = NewDecoder(<<>>) /\ hist = <<>> /\ ret = 0

BuildTree ==
    /\ pc = "bt_start"
    /\ \E t \in {build_tree(enc, inp.tree_type, checked)} :
          /\ enc' = t
          /\ pc' = IF t.panic THEN "bt_panic" ELSE "bt_built"
    /\ UNCHANGED <<checked, inp, huftVars, decVars>>

TreeTable ==
    /\ pc = "bt_built"
    /\ \E a \in {TreeCall(enc, inp.tree_type)} :
          /\ hb' = a
          /\ hres' = huft_build(a.b, a.n, a.s,
                                IF a.s = 0 THEN cpdist ELSE cplens,
                                IF a.s = 0 THEN cpdext ELSE cplext, a.m, checked)
    /\ pc' = "bt_table"
    /\ UNCHANGED <<checked, encVars, look, decVars>>

\* the walk of inflate_codes on the bits of send_code for a symbol that has
\* a code, the bits after them zero
TreeLookup ==
    /\ pc = "bt_table"
    /\ ~hres.panic
    /\ hres.ret # 2
    /\ \E s \in {n \in 0..(hb.n - 1) : hb.b[n] > 0} :
       \E m \in {ic_lookup(
                   NewDecoder(bi_windup(send_code(enc, s,
                                 enc[get_tree_mut(inp.tree_type)])).outbuf),
                   hres.t, hres.m)} :
          look' = [pat |-> s, r |-> m.r, e |-> m.t.e, n |-> m.t.n,
                   isT |-> m.t.isT, bits |-> 8 * m.taken - m.k,
                   panic |-> m.panic]
    /\ pc' = "bt_looked"
    /\ UNCHANGED <<checked, encVars, hb, hres, decVars>>

TreeNext == BuildTree \/ TreeTable \/ TreeLookup

SpecTree == TreeInit /\ [][TreeNext]_vars

(***************************************************************************)
(* SpecCodec: the encoder on a drawn input, then inflate on what it put    *)
(* out.  The match finder (deflate.rs) is not part of the sources modelled *)
(* here: a drawn input is the list of literals and matches it tallies,     *)
(* level is state.level and hasbuf tells whether it hands the bytes of the *)
(* block to flush_block.  It calls flush_block with eof false when         *)
(* ct_tally returns true, and once with eof true after the last symbol.    *)
(***************************************************************************)
Lit(byte) == [dist |-> 0, lc |-> byte]
Mat(dist, length) == [dist |-> dist, lc |-> length - MIN_MATCH]
Rep(sym, k) == [i \in 1..k |-> sym]

\* the bytes a list of literals and matches stands for
Expand(syms) ==
    FoldRange(LAMBDA y, i :
                 IF syms[i].dist = 0 THEN Append(y, syms[i].lc)
                 ELSE FoldRange(LAMBDA z, j : Append(z, z[Len(z) + 1 - syms[i].dist]),
                                y, 0, syms[i].lc + MIN_MATCH),
              <<>>, 1, Len(syms) + 1)

CodecSyms ==
    { <<>>,
      <<Lit(97)>>,
      <<Lit(97), Lit(98), Lit(99)>>,
      <<Lit(97), Mat(1, 3)>>,
      <<Lit(97), Mat(1, 258)>>,
      <<Lit(97), Lit(98), Mat(2, 257), Lit(0)>>,
      <<Lit(1), Mat(1, 10), Lit(2), Lit(3), Mat(8, 4), Lit(255)>>,
      <<Lit(97), Mat(1, 258), Lit(98), Lit(99), Lit(100)>>,
      Rep(Lit(97), LIT_BUFSIZE - 2),
      Rep(Lit(97), LIT_BUFSIZE - 1),
      Rep(Lit(97), LIT_BUFSIZE),
      <<Lit(97), Lit(98)>> \o Rep(Mat(2, 3), LIT_BUFSIZE - 4) \o <<Lit(99), Mat(1, 5)>>,
      [i \in 1..(LIT_BUFSIZE - 1) |-> Lit(255 - i)],
      [i \in 1..(LIT_BUFSIZE + 1) |-> Lit(255 - i)],
      [i \in 1..(LIT_BUFSIZE - 1) |-> Lit(128 + (i % 4))],
      <<Lit(253), Lit(254), Lit(255), Mat(1, 3), Mat(1, 3)>> \o Rep(Mat(8, 3), 9) }

CodecInputs ==
    {[syms |-> s, level |-> l, hasbuf |-> h] :
        s \in CodecSyms, l \in {1, 6}, h \in BOOLEAN}

CodecInit ==
    /\ checked \in BOOLEAN
    /\ \E a \in CodecInputs :
          inp = [syms |-> a.syms, level |-> a.level, hasbuf |-> a.hasbuf,
                 y |-> Expand(a.syms), pos |-> 0, strstart |-> 0, block_start |-> 0]
    /\ enc = NewTrees
    /\ pc = "ct_new"
    /\ hb = [b |-> <<>>, n |-> 0, s |-> 0, m |-> 0] /\ hres = NoResult /\ look = NoLook
    /\ dec = NewDecoder(<<>>) /\ prev = NewDecoder(<<>>) /\ hist = <<>> /\ ret = 0

CtInit ==
    /\ pc = "ct_new"
    /\ enc' = ct_init(enc, UNKNOWN, DEFLATED)
    /\ pc' = IF inp.syms = <<>> THEN "df_eof" ELSE "df_tally"
    /\ UNCHANGED <<checked, inp, huftVars, decVars>>

\* the match finder tallies its next symbol and moves on by its bytes
CtTally ==
    /\ pc = "df_tally"
    /\ \E r \in {ct_tally(enc, inp.syms[inp.pos + 1].dist, inp.syms[inp.pos + 1].lc,
                          inp.level, inp.strstart - inp.block_start)} :
          /\ enc' = r.tr
          /\ pc' = IF r.tr.panic THEN "df_panic"
                   ELSE IF r.flush THEN "df_flush"
                   ELSE IF inp.pos + 1 = Len(inp.syms) THEN "df_eof"
                   ELSE "df_tally"
    /\ inp' = [inp EXCEPT !.pos = @ + 1,
                          !.strstart = @ + (IF inp.syms[inp.pos + 1].dist = 0 THEN 1
                                            ELSE inp.syms[inp.pos + 1].lc + MIN_MATCH)]
    /\ UNCHANGED <<checked, huftVars, decVars>>

\* flush_block on the bytes since the block began; eof after the last symbol
FlushBlock ==
    /\ pc \in {"df_flush", "df_eof"}
    /\ \E t \in {flush_block(enc,
                             [some |-> inp.hasbuf,
                              v |-> SubSeq(inp.y, inp.block_start + 1, inp.strstart)],
                             inp.strstart - inp.block_start, pc = "df_eof", checked)} :
          /\ enc' = t
          /\ pc' = IF t.panic THEN "df_panic"
                   ELSE IF pc = "df_eof" THEN "df_done"
                   ELSE IF inp.pos = Len(inp.syms) THEN "df_eof"
                   ELSE "df_tally"
    /\ inp' = [inp EXCEPT !.block_start = inp.strstart]
    /\ UNCHANGED <<checked, huftVars, decVars>>

\* the bytes put out go to inflate.  What becomes of bits that flush_block
\* left in the accumulator is up to its caller: they are put out or lost.
Feed ==
    /\ pc = "df_done"
    /\ \E windup \in (IF enc.bi_valid > 0 THEN BOOLEAN ELSE {FALSE}) :
          dec' = NewDecoder(IF windup THEN bi_windup(enc).outbuf ELSE enc.outbuf)
    /\ pc' = "in_start"
    /\ UNCHANGED <<checked, encVars, huftVars, prev, hist, ret>>

CodecNext == CtInit \/ CtTally \/ FlushBlock \/ Feed \/ InflateNext

SpecCodec == CodecInit /\ [][CodecNext]_vars


(***************************************************************************)
(* SpecFixed: the static trees of ct_init against the tables of            *)
(* inflate_fixed.  ct_init runs, the table of inflate_fixed for the drawn  *)
(* tree is built, and the bits that send_code puts out for a symbol under  *)
(* the static tree are looked up in it.                                    *)
(***************************************************************************)
StaticTree == IF inp.tree_type = "Literal" THEN enc.static_ltree ELSE enc.static_dtree

FixedInit ==
    /\ checked \in BOOLEAN
    /\ inp \in {[tree_type |-> "Literal"], [tree_type |-> "Distance"]}
    /\ enc = NewTrees
    /\ pc = "sf_new"
    /\ hb = [b |-> <<>>, n |-> 0, s |-> 0, m |-> 0] /\ hres = NoResult /\ look = NoLook
    /\ dec = NewDecoder(<<>>) /\ prev = NewDecoder(<<>>) /\ hist = <<>> /\ ret = 0

StaticInit ==
    /\ pc = "sf_new"
    /\ enc' = ct_init(enc, UNKNOWN, DEFLATED)
    /\ pc' = IF enc'.panic THEN "sf_panic" ELSE "sf_init"
    /\ UNCHANGED <<checked, inp, huftVars, decVars>>

\* the huft_build call of inflate_fixed for the drawn tree (992, 1004)
FixedTable ==
    /\ pc = "sf_init"
    /\ hb' = IF inp.tree_type = "Literal"
             THEN [b |-> fixed_l, n |-> 288, s |-> 257, m |-> 7]
             ELSE [b |-> fixed_ld, n |-> 30, s |-> 0, m |-> 5]
    /\ hres' = IF inp.tree_type = "Literal" THEN fixed_tl ELSE fixed_td
    /\ pc' = "sf_table"
    /\ UNCHANGED <<checked, encVars, look, decVars>>

\* the walk of inflate_codes on the bits of send_code for a symbol of the
\* static tree, the bits after them zero
FixedLookup ==
    /\ pc = "sf_table"
    /\ ~hres.panic
    /\ hres.ret <= 1
    /\ \E s \in 0..(hb.n - 1) :
       \E m \in {ic_lookup(NewDecoder(bi_windup(send_code(enc, s, StaticTree)).outbuf),
                           hres.t, hres.m)} :
          look' = [pat |-> s, r |-> m.r, e |-> m.t.e, n |-> m.t.n,
                   isT |-> m.t.isT, bits |-> 8 * m.taken - m.k,
                   panic |-> m.panic]
    /\ pc' = "sf_looked"
    /\ UNCHANGED <<checked, encVars, hb, hres, decVars>>

FixedNext == StaticInit \/ FixedTable \/ FixedLookup

SpecFixed == FixedInit /\ [][FixedNext]_vars

(***************************************************************************)
(* Properties of huft_build.                                               *)
(***************************************************************************)
\* the Kraft allowance left after the codes of length <= j: 2^j less
\* 2^(j - len) for every such code
kraft_left(a, j) ==
    2 ^ j - FoldRange(LAMBDA acc, i : IF a.b[i] > 0 /\ a.b[i] <= j
                                      THEN acc + 2 ^ (j - a.b[i]) ELSE acc,
                      0, 0, a.n)

OverSubscribed(a) == \E j \in hb_k(a)..hb_g(a) : kraft_left(a, j) < 0

KraftOK(a) == hb_g(a) > 0 /\ ~OverSubscribed(a)

\* the canonical code of symbol i (RFC 1951, 3.2.2): the first code of a length
\* is twice the end of the codes of the length before
RECURSIVE first_code(_, _)
first_code(a, len) ==
    IF len <= 1 THEN 0
    ELSE 2 * (first_code(a, len - 1)
              + Cardinality({i \in 0..(a.n - 1) : a.b[i] = len - 1}))
canon_code(a, i) ==
    first_code(a, a.b[i]) + Cardinality({j \in 0..(i - 1) : a.b[j] = a.b[i]})

\* the len low bits of x in reverse order
RECURSIVE rev_bits(_, _)
rev_bits(x, len) ==
    IF len = 0 THEN 0 ELSE (x % 2) * (2 ^ (len - 1)) + rev_bits(x \div 2, len - 1)

\* the e and n of the table entry of symbol i
entry_e(a, i) ==
    IF i < a.s THEN (IF i < 256 THEN 16 ELSE 15)
    ELSE IF a.s = 0 THEN cpdext[i] ELSE cplext[i - a.s]
entry_n(a, i) ==
    IF i < a.s THEN i ELSE IF a.s = 0 THEN cpdist[i] ELSE cplens[i - a.s]

\* the lookup read the code of symbol i and ended at its entry
LookFound(i) ==
    /\ hb.b[i] > 0
    /\ look.bits = hb.b[i]
    /\ rev_bits(look.pat, hb.b[i]) = canon_code(hb, i)
    /\ look.e = entry_e(hb, i)
    /\ look.n = entry_n(hb, i)
    /\ ~look.isT

\* C7: huft_build returns 2 for every over-subscribed code-length vector, that
\* is every vector whose Kraft allowance is negative at some length from the
\* shortest to the longest length in use.
C7_OverSubscribedReturns2 ==
    (pc # "hb_start" /\ OverSubscribed(hb)) => (~hres.panic /\ hres.ret = 2)

\* C8: for a vector with a non-zero length that satisfies the Kraft
\* inequality huft_build builds a table (it returns 0 or 1, never 2, and does
\* not abort), and every bit pattern followed from the root through the
\* chained sub-tables ends, within MAX_BITS bits, at one terminal entry: an
\* entry that holds a value and not a table, with e = 16 (literal), 15 (end of
\* block) or an extra-bit count (base), or the invalid-code marker e = 99.
C8_KraftTableResolves ==
    /\ (pc # "hb_start" /\ KraftOK(hb))
          => (~hres.panic /\ hres.ret \in {0, 1} /\ hres.t.isT /\ hres.t.t # <<>>)
    /\ (pc = "hb_looked" /\ KraftOK(hb))
          => /\ ~look.panic
             /\ look.bits >= 0 /\ look.bits <= MAX_BITS
             /\ \/ look.r = 0 /\ look.e <= 16 /\ ~look.isT
                \/ look.r = 1 /\ look.e = 99

\* a code longer than the lookup bits was found through a chained sub-table
C8_Witness ==
    /\ pc = "hb_looked" /\ KraftOK(hb)
    /\ look.r = 0 /\ look.bits > hres.m
    /\ \E i \in 0..(hb.n - 1) : LookFound(i)

(***************************************************************************)
(* Properties of inflate and of the block decoders.  They read the stream  *)
(* by bit position, apart from the decoder's bit buffer.                   *)
(***************************************************************************)
\* bit p of the stream (bit 0 is the lowest bit of the first byte; past the
\* end the stream reads as zero), n bits from p as a number, byte q
StreamBit(sq, p) ==
    IF p \div 8 < Len(sq) THEN (sq[p \div 8 + 1] \div (2 ^ (p % 8))) % 2 ELSE 0
RECURSIVE StreamBits(_, _, _)
StreamBits(sq, p, n) ==
    IF n = 0 THEN 0 ELSE StreamBit(sq, p) + 2 * StreamBits(sq, p + 1, n - 1)
StreamByte(sq, q) == IF q < Len(sq) THEN sq[q + 1] ELSE 0

\* everything the decoder has put out: what was flushed and what is in the window
Output(m) == m.sink \o [i \in 1..m.outcnt |-> m.window[i - 1]]

LastBlock == hist[Len(hist)]

\* dec is the state the last inflate_block call returned in, prev the state it
\* was called in
AfterBlock ==
    /\ hist # <<>>
    /\ pc \in {"in_loop", "in_tail"} \/ (pc = "in_done" /\ LastBlock.r # 0)

\* the block wrote nothing
NothingWritten ==
    /\ dec.window = prev.window /\ dec.sink = prev.sink
    /\ dec.outcnt = prev.outcnt /\ dec.w = prev.outcnt

\* C2: inflate decodes the blocks in stream order, each from the bit the one
\* before left off at, and stops after the first block whose BFINAL bit is 1:
\* no block is begun after it; and once every block up to and including that
\* one has decoded with result 0, inflate ends and returns 0.
C2_StopsAfterFinalBlock ==
    /\ [](\A i \in 1..(Len(hist) - 1) :
             hist[i].e = 0 /\ hist[i + 1].pos = hist[i].end)
    /\ [](hist # <<>> => hist[1].pos = 0)
    /\ [](pc = "in_done" /\ ret = 0 => hist # <<>> /\ LastBlock.e = 1)
    /\ ((pc = "in_tail" /\ LastBlock.e = 1 /\ \A i \in 1..Len(hist) : hist[i].r = 0)
           ~> (pc = "in_done" /\ ret = 0))

\* inflate returned 0 after two blocks or more and left input unread
C2_Witness ==
    /\ pc = "in_done" /\ ret = 0 /\ Len(hist) >= 2
    /\ LastBlock.e = 1 /\ dec.inptr < Len(dec.inbuf)

\* C3: when inflate_block returns a non-zero code, inflate returns that code
\* at once, whatever the block's BFINAL bit: the block is the last one begun.
C3_ErrorStopsAtOnce ==
    /\ \A i \in 1..(Len(hist) - 1) : hist[i].r = 0
    /\ (hist # <<>> /\ LastBlock.r # 0) => (pc = "in_done" /\ ret = LastBlock.r)

\* a block that is not the last one failed after an earlier block, with input
\* left
C3_Witness ==
    /\ pc = "in_done" /\ Len(hist) >= 2
    /\ LastBlock.r # 0 /\ LastBlock.e = 0 /\ dec.inptr < Len(dec.inbuf)

\* C4: inflate_block reads BFINAL (1 bit) and then BTYPE (2 bits, low bit
\* first) at the position the stream is at, hands BFINAL to its caller as the
\* last-block flag, and enters the stored decoder on BTYPE 0, the fixed one
\* on 1, the dynamic one on 2; on BTYPE 3 it enters none, returns non-zero
\* and writes nothing.
C4_BlockHeaderDispatch ==
    AfterBlock =>
        LET p == LastBlock.pos
            bfinal == StreamBit(dec.inbuf, p)
            btype == StreamBits(dec.inbuf, p + 1, 2)
        IN /\ dec.e = bfinal /\ LastBlock.e = bfinal
           /\ dec.btype = btype
           /\ dec.ran = (CASE btype = 0 -> "stored" [] btype = 1 -> "fixed"
                           [] btype = 2 -> "dynamic" [] OTHER -> "none")
           /\ btype = 3 => (LastBlock.r # 0 /\ NothingWritten)

\* a block of type 3 after a block that left bytes in the window
C4_Witness ==
    /\ AfterBlock /\ Len(hist) >= 2
    /\ StreamBits(dec.inbuf, LastBlock.pos + 1, 2) = 3
    /\ LastBlock.r = 2 /\ prev.outcnt > 0

\* the byte the stored block's LEN field begins at: the first byte boundary
\* at or after the 3 header bits
StoredAt == (LastBlock.pos + 3 + 7) \div 8
StoredLen == StreamBits(dec.inbuf, 8 * StoredAt, 16)
StoredNlen == StreamBits(dec.inbuf, 8 * StoredAt + 16, 16)

\* C5: inflate_stored returns non-zero and writes nothing when LEN xor NLEN
\* is not 0xFFFF (NLEN is not the complement 0xFFFF - LEN); when it is, it
\* returns 0 and has copied the LEN bytes after NLEN, in order, to the window
\* from where the window stood, and has read exactly those bytes.
C5_StoredBlock ==
    (AfterBlock /\ dec.ran = "stored") =>
        IF StoredLen + StoredNlen # 65535
        THEN LastBlock.r # 0 /\ NothingWritten
        ELSE /\ LastBlock.r = 0
             /\ Output(dec) = Output(prev) \o
                    [j \in 1..StoredLen |-> StreamByte(dec.inbuf, StoredAt + 4 + j - 1)]
             /\ \A j \in Max(0, StoredLen - WSIZE)..(StoredLen - 1) :
                    dec.window[(prev.outcnt + j) % WSIZE]
                        = StreamByte(dec.inbuf, StoredAt + 4 + j)
             /\ LastBlock.end = 8 * (StoredAt + 4 + StoredLen)

\* a stored block longer than the window was copied after an earlier block
C5_Witness ==
    /\ AfterBlock /\ dec.ran = "stored" /\ Len(hist) >= 2
    /\ StoredLen + StoredNlen = 65535 /\ StoredLen > WSIZE
    /\ LastBlock.r = 0 /\ dec.flushes > prev.flushes

\* the counts a dynamic block announces
DynHlit == 257 + StreamBits(dec.inbuf, LastBlock.pos + 3, 5)
DynHdist == 1 + StreamBits(dec.inbuf, LastBlock.pos + 8, 5)

\* C6: inflate_dynamic returns non-zero when HLIT = 257 + (5-bit field) is
\* above 286 or HDIST = 1 + (5-bit field) is above 30, and it does so right
\* after the 14 bits of the three counts: no table has been built and
\* nothing has been written.
C6_DynamicCounts ==
    (AfterBlock /\ dec.ran = "dynamic" /\ (DynHlit > 286 \/ DynHdist > 30)) =>
        /\ LastBlock.r # 0
        /\ dec.hufts = 0
        /\ 8 * dec.taken - dec.k = LastBlock.pos + 17
        /\ NothingWritten

\* a dynamic block with too many distance codes, and no more literal codes
\* than allowed, failed after a block that left bytes in the window
C6_Witness ==
    /\ AfterBlock /\ dec.ran = "dynamic" /\ Len(hist) >= 2
    /\ DynHdist > 30 /\ DynHlit <= 286
    /\ LastBlock.r = 1 /\ prev.outcnt > 0

(***************************************************************************)
(* Properties of build_tree and gen_codes.                                 *)
(***************************************************************************)
TreeBuilt == pc \in {"bt_built", "bt_table", "bt_looked"}

\* the tree that was built, and the number of its symbols
TheTree == enc[get_tree_mut(inp.tree_type)]
TheElems == enc[get_desc(inp.tree_type)].elems

\* the limit on the code lengths of a tree
LengthLimit == IF inp.tree_type = "BitLength" THEN 7 ELSE 15

\* the depth of node n in the Huffman tree: the steps along dad to the root,
\* which build_tree leaves in heap[heap_max]
RECURSIVE NodeDepth(_)
NodeDepth(n) == IF n = enc.heap[enc.heap_max] THEN 0 ELSE 1 + NodeDepth(TheTree.dad[n])

\* the Huffman tree of the frequencies is deeper than the limit
DeepTree ==
    \E n \in 0..(TheElems - 1) : TheTree.freq[n] # 0 /\ NodeDepth(n) > LengthLimit

\* C10: after build_tree the len of every symbol of the tree is at most
\* max_length, 15 for the literal and the distance tree and 7 for the
\* bit-length tree, also where the Huffman tree of the frequencies is deeper
\* than that.
C10_LengthsWithinLimit ==
    TreeBuilt => \A n \in 0..(TheElems - 1) : TheTree.len[n] <= LengthLimit

\* build_tree returned on frequencies whose Huffman tree is deeper than the
\* limit
C10_Witness == TreeBuilt /\ DeepTree

\* C9: the table huft_build makes of the lengths of a built tree is made
\* without error, and the lookup of the bits that send_code puts out for a
\* symbol s of non-zero length finds s: the literal s, the end of the block,
\* the base and extra bits of the length or distance code s, or the
\* bit-length code s; and it takes len[s] bits.
C9_LookupFindsSymbol ==
    /\ pc \in {"bt_table", "bt_looked"} => ~hres.panic /\ hres.ret = 0
    /\ pc = "bt_looked" =>
         /\ look.r = 0 /\ ~look.panic /\ ~look.isT
         /\ look.bits = TheTree.len[look.pat]
         /\ CASE inp.tree_type = "Literal" ->
                   IF look.pat < 256 THEN look.e = 16 /\ look.n = look.pat
                   ELSE IF look.pat = 256 THEN look.e = 15
                   ELSE /\ look.e = cplext[look.pat - 257]
                        /\ look.n = cplens[look.pat - 257]
              [] inp.tree_type = "Distance" ->
                   look.e = cpdext[look.pat] /\ look.n = cpdist[look.pat]
              [] OTHER -> look.e = 16 /\ look.n = look.pat

\* a length code whose code is longer than the first table of the literal
\* tree was looked up, in a tree whose lengths were cut to the limit
C9_Witness ==
    /\ pc = "bt_looked" /\ inp.tree_type = "Literal"
    /\ look.pat = 285 /\ look.bits > hres.m /\ DeepTree

\* build_tree is over: it returned or it aborted
TreeOver == TreeBuilt \/ pc = "bt_panic"

\* opt_len when build_tree was called
OptLenBefore == IF inp.tree_type = "Literal" THEN 0 ELSE PriorLen

\* the bits of the block's symbols of this tree under the lengths as they
\* are now: the sum of F * (len + extra bits), F the frequencies that
\* build_tree was called on
TreeCost ==
    With(TreeStart(inp)[get_tree_mut(inp.tree_type)].freq, LAMBDA F :
      FoldRange(LAMBDA sum, n :
                   sum + F[n] * (TheTree.len[n] + gb_xbits(enc, inp.tree_type, n)),
                0, 0, TheElems))

\* the repair of gen_bitlen gave a symbol a length shorter than the length
\* of the limit that the first pass gave it, and a symbol a longer one
MovedBothWays ==
    /\ DeepTree
    /\ \E n \in 0..(TheElems - 1) :
          TheTree.freq[n] # 0 /\ NodeDepth(n) >= LengthLimit /\ TheTree.len[n] < LengthLimit
    /\ \E n \in 0..(TheElems - 1) :
          TheTree.freq[n] # 0 /\ NodeDepth(n) < TheTree.len[n]

\* C11: build_tree returns, without an overflow of opt_len on the way, and
\* has added to opt_len the sum over the symbols of freq * (len + extra
\* bits) under the final lengths, also when the repair of gen_bitlen has
\* moved symbols to shorter and to longer lengths.
C11_OptLenIsTreeCost ==
    TreeOver => (pc # "bt_panic" /\ enc.opt_len = OptLenBefore + TreeCost)

\* in a build without overflow checks build_tree returns and opt_len has
\* grown by the cost of the tree; a build with them aborts only where the
\* repair has moved a symbol to a shorter length
OptLenWrapsToTreeCost ==
    /\ (TreeOver /\ ~checked) => (pc # "bt_panic" /\ enc.opt_len = OptLenBefore + TreeCost)
    /\ pc = "bt_panic" => (checked /\ MovedBothWays)

(***************************************************************************)
(* Properties of the encoder with inflate.                                 *)
(***************************************************************************)
\* inflate is over: it returned, aborted or does not end
CodecOver == pc \in {"in_done", "in_panic", "in_hang"}

\* C1: inflate on the bytes the encoder put out for the input y returns 0
\* and has written exactly y, however the input was split into blocks.
C1_RoundTrip ==
    CodecOver => (pc = "in_done" /\ ret = 0 /\ Output(dec) = inp.y)

\* the bits the encoder has sent so far: those of the bytes put out and
\* those waiting in the accumulator; bit i of them, the first being bit 0
SentBits(tr) == 8 * Len(tr.outbuf) + tr.bi_valid
SentBit(tr, i) ==
    IF i < 8 * Len(tr.outbuf) THEN (tr.outbuf[(i \div 8) + 1] \div (2 ^ (i % 8))) % 2
    ELSE (tr.bi_buf \div (2 ^ (i - 8 * Len(tr.outbuf)))) % 2

\* the header of the block that begins at bit i
BlockHeader(tr, i) ==
    [bfinal |-> SentBit(tr, i), btype |-> SentBit(tr, i + 1) + 2 * SentBit(tr, i + 2)]

\* the bytes of the block that flush_block is called on
BlockLen == inp.strstart - inp.block_start

\* flush_block is called on a block that is not empty, and returns
FlushStep ==
    /\ pc \in {"df_flush", "df_eof"} /\ pc' \notin {"df_flush", "df_eof", "df_panic"}
    /\ BlockLen > 0

\* opt_lenb and static_lenb of the block: the bytes the trees that
\* flush_block builds give for opt_len + 3 and static_len + 3 bits
BlockCost ==
    With(build_bl_tree(build_tree(build_tree(enc, "Literal", checked),
                                  "Distance", checked), checked).tr, LAMBDA t :
      [opt_lenb |-> (t.opt_len + 3 + 7) \div 8,
       static_lenb |-> (t.static_len + 3 + 7) \div 8])

\* the kind of block the claim names for the costs c
BlockKind(c) ==
    IF BlockLen + 4 <= Min(c.opt_lenb, c.static_lenb) /\ inp.hasbuf THEN STORED_BLOCK
    ELSE IF c.static_lenb <= c.opt_lenb THEN STATIC_TREES
    ELSE DYN_TREES

\* C12: on a block that is not empty flush_block puts out a stored block
\* iff stored_len + 4 <= min(opt_lenb, static_lenb) and the bytes of the
\* block are at hand, else a fixed block iff static_lenb <= opt_lenb, else
\* a dynamic block; the three bits it sends first are BFINAL = eof and the
\* BTYPE of that kind.
C12_BlockChoice ==
    [][FlushStep =>
         BlockHeader(enc', SentBits(enc)) =
            [bfinal |-> IF pc = "df_eof" THEN 1 ELSE 0, btype |-> BlockKind(BlockCost)]]_vars

\* the encoder is done with an input of several blocks, the first a stored
\* block that is not the last, the last one not empty
C12_Witness ==
    /\ pc = "df_done" /\ inp.hasbuf /\ inp.block_start > 0 /\ enc.compressed_len # 0
    /\ BlockHeader(enc, 0) = [bfinal |-> 0, btype |-> STORED_BLOCK]

\* flush_block is called with eof after the last symbol went out with the
\* block before, or on no input at all: stored_len = 0 and nothing tallied
EmptyFlushStep ==
    /\ pc = "df_eof" /\ pc' = "df_done"
    /\ BlockLen = 0 /\ enc.last_lit = 0

\* from bit i on tr has sent one whole stored block of no bytes, the last
\* of the stream: the header, zeros up to the byte boundary, LEN = 0 and
\* NLEN = 0xFFFF, and nothing waits in the accumulator
EmptyStoredBlock(tr, i) ==
    /\ BlockHeader(tr, i) = [bfinal |-> 1, btype |-> STORED_BLOCK]
    /\ tr.bi_valid = 0
    /\ Len(tr.outbuf) = ((i + 3 + 7) \div 8) + 4
    /\ \A j \in (i + 3)..(8 * ((i + 3 + 7) \div 8) - 1) : SentBit(tr, j) = 0
    /\ SubSeq(tr.outbuf, Len(tr.outbuf) - 3, Len(tr.outbuf)) = <<0, 0, 255, 255>>

\* C13: flush_block with stored_len = 0, eof and no symbols tallied puts out
\* one whole stored block: the header BFINAL = 1, BTYPE = 00, the padding to
\* the byte boundary, LEN = 0 and NLEN = 0xFFFF.
C13_EmptyFinalBlock ==
    [][EmptyFlushStep => EmptyStoredBlock(enc', SentBits(enc))]_vars

\* after ct_tally has recorded a symbol a buffer is full
BufferFull == enc.last_lit = LIT_BUFSIZE - 1 \/ enc.last_dist = DIST_BUFSIZE

\* C14: ct_tally returns true whenever the literal or the distance buffer
\* is full after it recorded its symbol, so that with flush_block called
\* each time it returns true last_lit, last_dist and last_flags are always
\* indexes inside the literal, the distance and the flag buffer.
C14_TallyWithinBuffers ==
    /\ (BufferFull /\ pc \in {"df_tally", "df_eof", "df_flush"}) => pc = "df_flush"
    /\ enc.last_lit \in 0..(LIT_BUFSIZE - 1)
    /\ enc.last_dist \in 0..(DIST_BUFSIZE - 1)
    /\ enc.last_flags \in 0..((LIT_BUFSIZE \div 8) - 1)

\* ct_tally has returned true on a full buffer, with matches among the
\* symbols and the last byte of the flag buffer in use
C14_Witness ==
    /\ pc = "df_flush" /\ BufferFull
    /\ enc.last_dist > 0 /\ enc.last_flags = (LIT_BUFSIZE \div 8) - 1

\* a is the beginning of b
IsPrefix(a, b) == Len(a) <= Len(b) /\ SubSeq(b, 1, Len(a)) = a

\* C15: what flush_window has handed to the sink is at every moment a
\* beginning of the decoded bytes in their order, and all of them after a
\* successful inflate; the window is handed over each time the write
\* position reaches WSIZE, WSIZE bytes each time, and once more at the end
\* of inflate with the bytes left in it.
C15_SinkInDecodeOrder ==
    /\ pc \in {"in_loop", "in_tail", "in_done"} => IsPrefix(dec.sink, inp.y)
    /\ pc \in {"in_loop", "in_tail"} =>
          /\ IsPrefix(Output(dec), inp.y)
          /\ dec.outcnt < WSIZE
          /\ Len(dec.sink) = WSIZE * dec.flushes
    /\ (pc = "in_done" /\ ret = 0) =>
          /\ dec.sink = inp.y
          /\ dec.flushes = (Len(inp.y) + WSIZE - 1) \div WSIZE

\* a successful inflate has handed over the full window several times, the
\* first time within a match, and then the bytes left at the end
C15_Witness ==
    /\ pc = "in_done" /\ ret = 0
    /\ dec.flushes > 3 /\ Len(inp.y) % WSIZE # 0
    /\ inp.syms[2].dist # 0

\* the bytes of symbol k of the input, and the bytes before it
SymLen(k) == IF inp.syms[k].dist = 0 THEN 1 ELSE inp.syms[k].lc + MIN_MATCH
SymStart(k) == FoldRange(LAMBDA sum, j : sum + SymLen(j), 0, 1, k)

\* flush_block has sent a last block; it leaves compressed_len at 0 only
\* where it returns after the header of an empty last block (525-531)
FinalBlockSent == enc.compressed_len # 0

\* C16: for a pair (distance, length) with 1 <= distance <= WSIZE and
\* distance bytes or more before it, inflate_codes appends length bytes, each
\* the byte that lies distance before it in the output, also where distance
\* < length and where the copy passes the end of the window and flushes it;
\* the copy ends.
C16_MatchCopy ==
    (pc \in {"in_loop", "in_tail", "in_done"} /\ FinalBlockSent) =>
       With(Output(dec), LAMBDA out :
         /\ \E k \in 1..(Len(inp.syms) + 1) : Len(out) = SymStart(k)
         /\ \A k \in 1..Len(inp.syms) :
               (inp.syms[k].dist # 0 /\ SymStart(k + 1) <= Len(out)) =>
                  \A i \in 1..SymLen(k) :
                     out[SymStart(k) + i] = out[SymStart(k) + i - inp.syms[k].dist])

\* inflate has decoded a pair with distance < length whose copy passes the
\* end of the window, and a pair with distance WSIZE
C16_Witness ==
    /\ pc = "in_done" /\ ret = 0 /\ FinalBlockSent
    /\ \E k \in 1..Len(inp.syms) :
          /\ inp.syms[k].dist # 0 /\ inp.syms[k].dist < SymLen(k)
          /\ SymStart(k) \div WSIZE < (SymStart(k + 1) - 1) \div WSIZE
    /\ \E k \in 1..Len(inp.syms) : inp.syms[k].dist = WSIZE

(***************************************************************************)
(* Properties of the copy of inflate_codes on a distance too far.          *)
(***************************************************************************)
\* the block is a fixed block whose first symbol is a match of length 3 at
\* distance 1 (length code 257, distance code 0), and no byte was decoded
\* before it: the distance points before the start of the stream
DistanceBeforeStart ==
    /\ AfterBlock /\ dec.ran = "fixed"
    /\ StreamBits(dec.inbuf, LastBlock.pos + 3, 12) = 64
    /\ Output(prev) = <<>>

\* C17: a decoded distance larger than the number of bytes output so far
\* makes the block fail with an error, and nothing is copied from the
\* window.
C17_DistanceTooFarFails ==
    DistanceBeforeStart => (LastBlock.r # 0 /\ NothingWritten)

(***************************************************************************)
(* Properties of the length loop of inflate_dynamic.                       *)
(***************************************************************************)
\* the last block was a dynamic block that read at least one bit-length code
LengthsRead == AfterBlock /\ dec.ran = "dynamic" /\ dec.log # <<>>

\* HLIT + HDIST of the last block, from its header fields
LengthsWanted ==
    257 + StreamBits(dec.inbuf, LastBlock.pos + 3, 5)
        + 1 + StreamBits(dec.inbuf, LastBlock.pos + 8, 5)

\* the number of lengths code j with extra value x stands for, and the length
\* it repeats after the lengths out
RunCount(j, x) == IF j < 16 THEN 1 ELSE IF j = 18 THEN 11 + x ELSE 3 + x
RunLength(out, j) ==
    IF j < 16 THEN j ELSE IF j = 16 /\ out # <<>> THEN out[Len(out)] ELSE 0

\* the lengths a list of codes stands for when n are wanted: fail is set by a
\* run that passes n, extra by a code that follows the n-th length or a failure
RunsExpanded(log, n) ==
    FoldRange(LAMBDA a, i :
                 IF a.fail \/ Len(a.out) = n THEN [a EXCEPT !.extra = TRUE]
                 ELSE IF Len(a.out) + RunCount(log[i][1], log[i][2]) > n
                 THEN [a EXCEPT !.fail = TRUE]
                 ELSE [a EXCEPT !.out = @ \o Rep(RunLength(a.out, log[i][1]),
                                                RunCount(log[i][1], log[i][2]))],
              [out |-> <<>>, fail |-> FALSE, extra |-> FALSE], 1, Len(log) + 1)

\* the extra value of each code is one its field can hold
ExtraInField(log) ==
    \A i \in 1..Len(log) :
       log[i][2] \in 0..(IF log[i][1] < 16 THEN 0 ELSE IF log[i][1] = 16 THEN 3
                         ELSE IF log[i][1] = 17 THEN 7 ELSE 127)

\* C18: the length loop of inflate_dynamic fills ll with what its codes stand
\* for: 0..15 is that length, 16 the length before it (0 at the start and
\* after a run of zeros) 3 + (2 bits) times, 17 is 3 + (3 bits) zeros, 18 is
\* 11 + (7 bits) zeros; a run that passes HLIT + HDIST lengths makes the block
\* fail, and no code is read once HLIT + HDIST lengths are filled.
C18_LengthCodesExpand ==
    LengthsRead =>
       With(RunsExpanded(dec.log, LengthsWanted), LAMBDA a :
          /\ ExtraInField(dec.log)
          /\ ~a.extra
          /\ \A i \in 1..Len(a.out) : dec.ll[i - 1] = a.out[i]
          /\ a.fail => LastBlock.r = 1
          /\ Len(a.out) < LengthsWanted => LastBlock.r # 0
          /\ LastBlock.r = 0 => Len(a.out) = LengthsWanted)

\* a block whose lengths came as 16 first, 16 after a length, 17, 16 after the
\* zeros, 18 twice and two plain lengths was decoded, and the block after it
\* failed on a run that passes the end
C18_Witness ==
    /\ LengthsRead /\ Len(hist) = 2 /\ hist[1].r = 0 /\ LastBlock.r = 1
    /\ prev.log = << <<16, 1>>, <<3, 0>>, <<16, 0>>, <<17, 2>>, <<16, 0>>,
                     <<18, 127>>, <<18, 91>>, <<1, 0>>, <<0, 0>> >>
    /\ \A i \in 0..257 :
          prev.ll[i] = IF i \in 4..7 THEN 3 ELSE IF i = 256 THEN 1 ELSE 0
    /\ Output(prev) = <<5>>
    /\ RunsExpanded(dec.log, LengthsWanted).fail

(***************************************************************************)
(* Properties of send_all_trees.                                           *)
(***************************************************************************)
\* a decoder that has read the first p bits of the bytes sq
DecoderAt(sq, p) ==
    [NewDecoder(sq) EXCEPT !.inptr = (p + 7) \div 8, !.taken = (p + 7) \div 8,
                           !.bk = (8 - (p % 8)) % 8,
                           !.bb = IF p % 8 = 0 THEN 0
                                  ELSE sq[(p \div 8) + 1] \div (2 ^ (p % 8))]

\* flush_block is called on a block that it sends with dynamic trees
DynamicStep ==
    /\ pc \in {"df_flush", "df_eof"} /\ BlockLen > 0
    /\ BlockKind(BlockCost) = DYN_TREES

\* lcodes and dcodes of the block sent last, and the lengths of its first
\* lcodes literal and dcodes distance codes
TreeLengths(tr) ==
    [i \in 0..(tr.l_desc.max_code + tr.d_desc.max_code + 1) |->
        IF i <= tr.l_desc.max_code THEN tr.dyn_ltree.len[i]
        ELSE tr.dyn_dtree.len[i - (tr.l_desc.max_code + 1)]]

\* what inflate_dynamic makes of the bits sent after the first p
HeaderParsed(tr, p) == inflate_dynamic(DecoderAt(bi_windup(tr).outbuf, p), checked)

\* the codes of bit-length code j in a list of codes
RunsOf(log, j) == {i \in 1..Len(log) : log[i][1] = j}

\* C19: flush_block sending a block with dynamic trees does not fail in
\* send_tree, and inflate_dynamic reads from the header it sent HLIT =
\* lcodes, HDIST = dcodes and the lengths of dyn_ltree[0..lcodes) followed by
\* those of dyn_dtree[0..dcodes).
C19_HeaderRoundTrip ==
    [][DynamicStep =>
         /\ pc' # "df_panic"
         /\ With(HeaderParsed(enc', SentBits(enc) + 3), LAMBDA m :
               /\ m.nl = enc'.l_desc.max_code + 1
               /\ m.nd = enc'.d_desc.max_code + 1
               /\ m.ll = TreeLengths(enc'))]_vars

\* a single block was sent with dynamic trees, and its header has a run sent
\* as REP_3_6, one as REPZ_3_10 and one as REPZ_11_138
C19_Witness ==
    /\ pc = "df_done" /\ inp.block_start > 0
    /\ BlockHeader(enc, 0) = [bfinal |-> 1, btype |-> DYN_TREES]
    /\ With(HeaderParsed(enc, 3), LAMBDA m :
          /\ m.ll = TreeLengths(enc)
          /\ \A j \in {REP_3_6, REPZ_3_10, REPZ_11_138} : RunsOf(m.log, j) # {})

(***************************************************************************)
(* Properties of the counts of ct_tally.                                   *)
(***************************************************************************)
\* the sum of the first n counts of a tree
FreqSum(tree, n) == FoldRange(LAMBDA sum, i : sum + tree.freq[i], 0, 0, n)

\* init_block has run and flush_block has not run since
BlockOpen == pc \in {"df_tally", "df_flush", "df_eof"}

\* ct_tally is called on the next symbol of the input, and returns
TallyStep == pc = "df_tally" /\ pc' # "df_panic"
NextSym == inp.syms[inp.pos + 1]

\* the counts freq with the one at i raised by one
Raised(freq, i) == [freq EXCEPT ![i] = @ + 1]

\* C20: between init_block and the next flush_block the counts of
\* dyn_ltree[0..L_CODES) add up to last_lit + 1, those of
\* dyn_dtree[0..D_CODES) to last_dist, and last_dist <= last_lit; ct_tally on
\* a literal raises dyn_ltree[lc].freq and no other count, on a match
\* dyn_ltree[length_code[lc] + 257].freq and dyn_dtree[d_code(dist - 1)].freq
\* and no other.
C20_TallyCounts ==
    /\ [](BlockOpen =>
            /\ FreqSum(enc.dyn_ltree, L_CODES) = enc.last_lit + 1
            /\ FreqSum(enc.dyn_dtree, D_CODES) = enc.last_dist
            /\ enc.last_dist <= enc.last_lit)
    /\ [][TallyStep =>
            IF NextSym.dist = 0
            THEN /\ enc'.dyn_ltree.freq = Raised(enc.dyn_ltree.freq, NextSym.lc)
                 /\ enc'.dyn_dtree.freq = enc.dyn_dtree.freq
            ELSE /\ enc'.dyn_ltree.freq =
                       Raised(enc.dyn_ltree.freq, enc.length_code[NextSym.lc] + 257)
                 /\ enc'.dyn_dtree.freq =
                       Raised(enc.dyn_dtree.freq, d_code(enc, NextSym.dist - 1))]_vars

\* a second block is open in which a match and a literal were counted: a
\* match of length 4 (length code 258) at distance 8 (distance code 5) and
\* the literal 255
C20_Witness ==
    /\ BlockOpen /\ inp.block_start > 0
    /\ enc.last_lit = 2 /\ enc.last_dist = 1
    /\ enc.dyn_ltree.freq[255] = 1 /\ enc.dyn_ltree.freq[258] = 1
    /\ enc.dyn_dtree.freq[5] = 1

(***************************************************************************)
(* Properties of compress_block.                                           *)
(***************************************************************************)
\* the symbols tallied since the block began, in the order of their calls
BlockSyms == SubSeq(inp.syms, inp.pos - enc.last_lit + 1, inp.pos)

\* the codes of a symbol under the trees lt and dt, each with its width: a
\* literal is one code; a match is its length code, the extra length bits,
\* the code of its distance less one and the extra distance bits
SymCodes(tr, sy, lt, dt) ==
    IF sy.dist = 0 THEN << <<lt.code[sy.lc], lt.len[sy.lc]>> >>
    ELSE With(tr.length_code[sy.lc], LAMBDA lcode :
         With(d_code(tr, sy.dist - 1), LAMBDA dcode :
           << <<lt.code[lcode + 257], lt.len[lcode + 257]>>,
              <<sy.lc - tr.base_length[lcode], EXTRA_LBITS[lcode]>>,
              <<dt.code[dcode], dt.len[dcode]>>,
              <<sy.dist - 1 - tr.base_dist[dcode], EXTRA_DBITS[dcode]>> >>))

\* the bits of a list of codes, each sent from its lowest bit
CodeBits(codes) ==
    FoldRange(LAMBDA bits, i :
                 bits \o [q \in 1..codes[i][2] |-> (codes[i][1] \div (2 ^ (q - 1))) % 2],
              <<>>, 1, Len(codes) + 1)

\* the bits of the symbols syms in their order, then those of END_BLOCK
BodyBits(tr, syms, lt, dt) ==
    FoldRange(LAMBDA bits, i : bits \o CodeBits(SymCodes(tr, syms[i], lt, dt)),
              <<>>, 1, Len(syms) + 1)
       \o CodeBits(<< <<lt.code[END_BLOCK], lt.len[END_BLOCK]>> >>)

\* flush_block is called on a block that is not empty and sends it with
\* trees: static or dynamic
TreesStep ==
    /\ FlushStep
    /\ BlockHeader(enc', SentBits(enc)).btype \in {STATIC_TREES, DYN_TREES}
StaticSent == BlockHeader(enc', SentBits(enc)).btype = STATIC_TREES

\* the bit at which the codes of the symbols begin: after the three bits of
\* the block header and, in a dynamic block, what send_all_trees sends
BodyStart ==
    IF StaticSent THEN SentBits(enc) + 3
    ELSE SentBits(send_all_trees(
                    send_bits([enc' EXCEPT !.outbuf = enc.outbuf, !.bi_buf = enc.bi_buf,
                                           !.bi_valid = enc.bi_valid], 0, 3),
                    enc'.l_desc.max_code + 1, enc'.d_desc.max_code + 1,
                    bb_index(enc', BL_CODES - 1) + 1))

\* the bits sent after the first p are the bits b and, at the end of the
\* input, zeros up to the next byte boundary
SentAfter(tr, p, b, eof) ==
    /\ \A i \in 1..Len(b) : SentBit(tr, p + i - 1) = b[i]
    /\ SentBits(tr) = IF eof THEN ((p + Len(b) + 7) \div 8) * 8 ELSE p + Len(b)
    /\ \A i \in (p + Len(b))..(SentBits(tr) - 1) : SentBit(tr, i) = 0

\* C21: compress_block sends the symbols of the block in the order they were
\* tallied, the i-th as a match iff the i-th ct_tally call had dist # 0,
\* with the distances in tally order, and END_BLOCK once, as the last code.
C21_SymbolsInTallyOrder ==
    [][TreesStep =>
         SentAfter(enc', BodyStart,
                   BodyBits(enc, BlockSyms,
                            IF StaticSent THEN enc'.static_ltree ELSE enc'.dyn_ltree,
                            IF StaticSent THEN enc'.static_dtree ELSE enc'.dyn_dtree),
                   pc = "df_eof")]_vars

\* the first block had LIT_BUFSIZE - 1 symbols, so that a partial flag byte
\* was saved, with a match and then a literal after the eighth, and was
\* sent with trees; a block followed it
C21_Witness ==
    /\ pc = "df_done" /\ inp.level = 1 /\ Len(inp.syms) >= LIT_BUFSIZE
    /\ \E k \in 9..(LIT_BUFSIZE - 2) :
          inp.syms[k].dist # 0 /\ inp.syms[k + 1].dist = 0
    /\ BlockHeader(enc, 0).bfinal = 0
    /\ BlockHeader(enc, 0).btype \in {STATIC_TREES, DYN_TREES}

(***************************************************************************)
(* Properties of flush_block on its return.                                *)
(***************************************************************************)
\* flush_block is called and returns
FlushReturn == pc \in {"df_flush", "df_eof"} /\ pc' \notin {"df_flush", "df_eof", "df_panic"}

\* the tally state as init_block leaves it
TallyReset(tr) ==
    /\ tr.last_lit = 0 /\ tr.last_dist = 0 /\ tr.last_flags = 0
    /\ tr.flags = 0 /\ tr.flag_bit = 1
    /\ tr.opt_len = 0 /\ tr.static_len = 0
    /\ \A n \in 0..(L_CODES - 1) :
          tr.dyn_ltree.freq[n] = IF n = END_BLOCK THEN 1 ELSE 0
    /\ \A n \in 0..(D_CODES - 1) : tr.dyn_dtree.freq[n] = 0
    /\ \A n \in 0..(BL_CODES - 1) : tr.bl_tree.freq[n] = 0

\* C22: after every flush_block call the tally state is reset for the next
\* block, and when eof is true no bit waits in the accumulator: what was put
\* out ends on a byte boundary.
C22_ResetAndAligned ==
    [][FlushReturn =>
         /\ TallyReset(enc')
         /\ pc = "df_eof" => enc'.bi_valid = 0]_vars

\* the same for the calls on a block that is not empty
ResetAndAlignedUnlessEmpty ==
    [][FlushStep =>
         /\ TallyReset(enc')
         /\ pc = "df_eof" => enc'.bi_valid = 0]_vars

\* flush_block at the end of the input leaves bits in the accumulator only
\* when its block was empty, and then the three bits of its header or, after
\* a block that did not end on a byte boundary, those and the bits before
EmptyLeavesHeaderBits ==
    [][(FlushReturn /\ pc = "df_eof" /\ enc'.bi_valid # 0) =>
         /\ BlockLen = 0 /\ TallyReset(enc')
         /\ enc'.bi_valid = (enc.bi_valid + 3) % 16]_vars

(***************************************************************************)
(* Properties of gen_codes.                                                *)
(***************************************************************************)
\* the first code of length len: twice the first code of the length before
\* plus the bl_count of that length
RECURSIVE FirstCode(_)
FirstCode(len) ==
    IF len = 0 THEN 0 ELSE 2 * (FirstCode(len - 1) + enc.bl_count[len - 1])

\* the symbols of the tree that have a code
Coded == {n \in 0..(TheElems - 1) : TheTree.len[n] > 0}

\* the code of symbol n before its reversal: the first code of its length
\* plus the number of symbols of that length before it
RawCode(n) ==
    FirstCode(TheTree.len[n])
       + Cardinality({j \in 0..(n - 1) : TheTree.len[j] = TheTree.len[n]})

\* C23: after gen_codes the codes of the symbols with len > 0 are canonical
\* before their reversal: those of one length are consecutive in symbol
\* order from the first code of the length, which is (the first code of the
\* length before + its bl_count) << 1; they fit their length and none is a
\* prefix of another; the stored code is the reversal over len bits.
C23_CodesCanonical ==
    TreeBuilt =>
       /\ \A n \in Coded :
             /\ RawCode(n) < 2 ^ TheTree.len[n]
             /\ TheTree.code[n] = rev_bits(RawCode(n), TheTree.len[n])
       /\ \A n, k \in Coded :
             (n # k /\ TheTree.len[n] <= TheTree.len[k])
                => RawCode(k) \div (2 ^ (TheTree.len[k] - TheTree.len[n])) # RawCode(n)

\* a tree was given codes of three lengths at least, two symbols of one
\* length among them, after its lengths were cut to the limit
C23_Witness ==
    /\ TreeBuilt /\ DeepTree
    /\ Cardinality({TheTree.len[n] : n \in Coded}) >= 3
    /\ \E n, k \in Coded :
          /\ n < k /\ TheTree.len[n] = TheTree.len[k]
          /\ TheTree.code[n] # rev_bits(TheTree.code[n], TheTree.len[n])

(***************************************************************************)
(* Properties of the static trees and the fixed tables.                    *)
(***************************************************************************)
\* C24: the static trees of ct_init and the tables of inflate_fixed are of
\* one code: the literal and length codes have 8 bits for 0..143, 9 for
\* 144..255, 7 for 256..279 and 8 for 280..287 in both, every distance code
\* has 5 bits and is the reversal of its number, and the lookup of the code
\* of a symbol the encoder can send (0..285, distance codes 0..29) in the
\* fixed table finds that symbol after the bits of its code.
C24_StaticMatchesFixed ==
    /\ pc \in {"sf_init", "sf_table", "sf_looked"} =>
         /\ \A n \in 0..287 :
               /\ enc.static_ltree.len[n] =
                     (IF n <= 143 THEN 8 ELSE IF n <= 255 THEN 9
                      ELSE IF n <= 279 THEN 7 ELSE 8)
               /\ enc.static_ltree.len[n] = fixed_l[n]
         /\ \A n \in 0..29 :
               /\ enc.static_dtree.len[n] = 5 /\ fixed_ld[n] = 5
               /\ enc.static_dtree.code[n] = rev_bits(n, 5)
    /\ pc # "sf_panic"
    /\ pc \in {"sf_table", "sf_looked"} =>
         /\ ~hres.panic
         /\ hres.ret = IF inp.tree_type = "Literal" THEN 0 ELSE 1
    /\ (pc = "sf_looked" /\ (inp.tree_type = "Literal" => look.pat <= 285)) =>
         /\ look.r = 0 /\ ~look.panic /\ ~look.isT
         /\ look.bits = StaticTree.len[look.pat]
         /\ IF inp.tree_type = "Distance"
            THEN look.e = cpdext[look.pat] /\ look.n = cpdist[look.pat]
            ELSE IF look.pat < 256 THEN look.e = 16 /\ look.n = look.pat
            ELSE IF look.pat = 256 THEN look.e = 15
            ELSE /\ look.e = cplext[look.pat - 257]
                 /\ look.n = cplens[look.pat - 257]

\* the code of the length code 285, longer than the lookup bits of the
\* fixed literal table, was looked up
C24_Witness ==
    /\ pc = "sf_looked" /\ inp.tree_type = "Literal"
    /\ look.pat = 285 /\ look.bits = 8 /\ look.n = 258 /\ look.e = 0

(***************************************************************************)
(* Properties of build_tree on fewer than two symbols.                     *)
(***************************************************************************)
\* the frequencies build_tree was called on, and the symbols counted in them
FreqBefore == TreeStart(inp)[get_tree_mut(inp.tree_type)].freq
Live == {n \in 0..(TheElems - 1) : FreqBefore[n] # 0}

\* the dummy symbols of the rule: max_code + 1 while max_code < 2, else 0
Dummies ==
    IF Live = {} THEN {0, 1}
    ELSE With(CHOOSE n \in Live : TRUE, LAMBDA n : IF n < 2 THEN {n + 1} ELSE {0})

\* the bits of the symbols counted under the lengths len
LiveCost(len) ==
    FoldRange(LAMBDA sum, n :
                 sum + FreqBefore[n] * (len[n] + gb_xbits(enc, inp.tree_type, n)),
              0, 0, TheElems)

\* C25: build_tree on fewer than two symbols with a count gives the count 1
\* to dummy symbols, max_code + 1 while max_code < 2 and else 0, until there
\* are two leaves; then two symbols at least have a length, every symbol
\* with count 0 has length 0, and opt_len and static_len grow by the bits of
\* the symbols counted before alone.  (The drawn trees of fewer than two
\* symbols are distance trees: a block counts END_BLOCK and a symbol in its
\* literal tree, and static_len is as opt_len when build_tree is called.)
C25_DummySymbols ==
    (TreeOver /\ Cardinality(Live) < 2) =>
       /\ pc # "bt_panic"
       /\ \A n \in 0..(TheElems - 1) :
             /\ TheTree.freq[n] = IF n \in Dummies THEN 1 ELSE FreqBefore[n]
             /\ TheTree.freq[n] = 0 => TheTree.len[n] = 0
             /\ n \in Live \cup Dummies => TheTree.len[n] = 1
       /\ Cardinality({n \in 0..(TheElems - 1) : TheTree.len[n] >= 1}) = 2
       /\ enc.opt_len = OptLenBefore + LiveCost(TheTree.len)
       /\ enc.static_len = OptLenBefore + LiveCost(enc.static_dtree.len)

\* build_tree was called on a tree whose only symbol is from 2 on and has
\* extra bits, and gave symbol 0 the count 1 and a code of one bit
C25_Witness ==
    /\ TreeBuilt /\ Cardinality(Live) = 1
    /\ \E n \in Live : n >= 2 /\ gb_xbits(enc, inp.tree_type, n) > 0
    /\ TheTree.freq[0] = 1 /\ TheTree.len[0] = 1

(***************************************************************************)
(* Properties of the data type that flush_block sets.                      *)
(***************************************************************************)
\* the counts of the literals lo .. hi - 1 of the block
LitCount(lo, hi) == FoldRange(LAMBDA sum, n : sum + enc.dyn_ltree.freq[n], 0, lo, hi)

\* the data type of the rule: BINARY iff the bytes 0..6 and 128..255 are
\* more than a quarter of the bytes 7..127
TypeOfBlock ==
    IF LitCount(0, 7) + LitCount(128, 256) > LitCount(7, 128) \div 4
    THEN BINARY ELSE ASCII

\* flush_block is called while the data type is not determined
UntypedFlush == pc \in {"df_flush", "df_eof"} /\ enc.file_type.v = UNKNOWN

\* C26: flush_block called while the data type is not determined yet does
\* not fail and leaves in the file-type attribute the type of the block's
\* literals: BINARY iff the count of the bytes 0..6 and 128..255 is more
\* than a quarter of the count of the bytes 7..127, else ASCII.
C26_FileTypeSet ==
    [][UntypedFlush =>
         /\ pc' # "df_panic"
         /\ enc'.file_type.some /\ enc'.file_type.v = TypeOfBlock]_vars

\* a flush_block call that returns has not written the attribute that
\* ct_init was given
FileTypeKept == [][FlushReturn => enc'.file_type = enc.file_type]_vars

(***************************************************************************)
(* Properties of a dynamic block with an incomplete code set.              *)
(***************************************************************************)
\* the two builds of the block that inflate_dynamic has just read the
\* lengths of
LitBuild == huft_build(dec.ll, dec.nl, 257, cplens, cplext, 9, checked)

DistBuild ==
    huft_build([q \in 0..(dec.nd - 1) |-> dec.ll[dec.nl + q]], dec.nd, 0,
               cpdist, cpdext, 6, checked)

\* the last block was a dynamic block whose lengths were all read and of
\* whose two builds none failed and one reported an incomplete set
IncompleteBlock ==
    /\ pc \in {"in_loop", "in_tail", "in_done"} /\ hist # <<>>
    /\ dec.ran = "dynamic"
    /\ DOMAIN dec.ll = 0..(dec.nl + dec.nd - 1)
    /\ ~LitBuild.panic /\ ~DistBuild.panic
    /\ LitBuild.ret \in {0, 1} /\ DistBuild.ret \in {0, 1}
    /\ 1 \in {LitBuild.ret, DistBuild.ret}

\* the data of the block decoded with the two tables as they were built
DataRun ==
    ic_result(inflate_codes([prev EXCEPT !.bb = dec.bb, !.bk = dec.bk,
                                         !.inptr = dec.inptr, !.taken = dec.taken,
                                         !.eof = dec.eof, !.r = 0],
                            LitBuild.t, DistBuild.t, LitBuild.m, DistBuild.m))

\* C27: a dynamic block of which a build reports an incomplete code set
\* (huft_build returns 1) is still run with the tables built, and fails only
\* if its data uses a code that the set leaves unassigned: when the data
\* decodes with these tables up to an end-of-block code, the block succeeds.
C27_IncompleteStillRuns ==
    (IncompleteBlock /\ DataRun.r = 0 /\ DataRun.st = "eob") => LastBlock.r = 0

\* a dynamic block of which a build reports an incomplete set fails with 1,
\* and none of its data is read
IncompleteRejected ==
    IncompleteBlock => /\ LastBlock.r = 1
                       /\ dec.sink = prev.sink /\ dec.outcnt = prev.outcnt

(***************************************************************************)
(* Properties of the lengths that flush_block counts.                      *)
(***************************************************************************)
\* the trees that flush_block builds for the block, and max_blindex
BlockBuilt ==
    build_bl_tree(build_tree(build_tree(enc, "Literal", checked), "Distance", checked),
                  checked)

\* static_len or opt_len of the block, as the block is sent
CountedLen == IF StaticSent THEN BlockBuilt.tr.static_len ELSE BlockBuilt.tr.opt_len

\* the bits of the symbols of a tree: the sum of F * (len + extra bits) over
\* its elems symbols
SymbolBits(F, len, tree_type, elems) ==
    FoldRange(LAMBDA sum, n : sum + F[n] * (len[n] + gb_xbits(enc, tree_type, n)),
              0, 0, elems)

\* the parts of opt_len: the three counts, the lengths of the bit-length
\* codes, the lengths of the two trees as scan_tree counted their codes, and
\* the symbols of the block, END_BLOCK among the literals
OptLenParts ==
    With(BlockBuilt, LAMBDA b :
      5 + 5 + 4 + 3 * (b.max_blindex + 1)
      + SymbolBits(b.tr.bl_tree.freq, b.tr.bl_tree.len, "BitLength", BL_CODES)
      + SymbolBits(enc.dyn_ltree.freq, b.tr.dyn_ltree.len, "Literal", L_CODES)
      + SymbolBits(enc.dyn_dtree.freq, b.tr.dyn_dtree.len, "Distance", D_CODES))

Sized(tr) == {i \in 0..(BL_CODES - 1) : tr.bl_tree.len[BL_ORDER[i]] # 0}

\* the greatest element of a set of numbers that is not empty
Greatest(S) == CHOOSE i \in S : \A j \in S : j <= i

\* C29: when flush_block sends a block with dynamic trees, lcodes is in
\* 257..286, dcodes in 1..30 and blcodes in 4..19, max_blindex is the largest
\* index into BL_ORDER of a bit-length code with a length and not below 3,
\* and flush_block does not fail in send_all_trees.
C29_CountsInRange ==
    [][DynamicStep =>
         With(BlockBuilt, LAMBDA b :
           /\ b.tr.l_desc.max_code + 1 \in 257..L_CODES
           /\ b.tr.d_desc.max_code + 1 \in 1..D_CODES
           /\ b.max_blindex + 1 \in 4..BL_CODES
           /\ Sized(b.tr) # {} /\ b.max_blindex = Greatest(Sized(b.tr))
           /\ b.max_blindex >= 3
           /\ ~send_all_trees(b.tr, b.tr.l_desc.max_code + 1, b.tr.d_desc.max_code + 1,
                               b.max_blindex + 1).panic
           /\ pc' # "df_panic")]_vars

\* the last block was sent with dynamic trees, with length codes among its
\* lcodes codes and fewer than 19 bit-length codes
C29_Witness ==
    /\ pc = "df_done"
    /\ BlockHeader(enc, 0) = [bfinal |-> 1, btype |-> DYN_TREES]
    /\ enc.l_desc.max_code + 1 > 257 /\ enc.d_desc.max_code + 1 > 1
    /\ Greatest(Sized(enc)) + 1 \in 4..(BL_CODES - 1)

(***************************************************************************)
(* Properties of the input cursor when inflate returns.                    *)
(***************************************************************************)
\* inflate has left its loop after the last block and gives back what it
\* read ahead
TailStep == pc = "in_tail" /\ pc' = "in_done"

\* the byte after the one that holds the last bit of the block decoded last
ByteAfterBlock == (LastBlock.end + 7) \div 8

CursorGivenBackAtEnd ==
    [][TailStep /\ dec.eof => dec'.inptr = Len(dec.inbuf) - (dec.bk \div 8)]_vars

====
